---- MODULE Spec2Model ----
(***************************************************************************)
(* A model of the meshphone messaging core: MeshNode (core/node.py),       *)
(* Message (core/message.py), Router.find_route (core/routing.py),         *)
(* EnergyAccount / EnergyMarket (core/energy.py) and the radio callback    *)
(* of MeshPhoneApp (mesh_app.py).                                          *)
(*                                                                         *)
(* Energy amounts are fixed-point numbers: one unit is 1/Scale of an       *)
(* energy unit, so 1000.0 is 1000 * Scale and one cent is Cent units.      *)
(* Message ids (uuid4 in the source) are fresh naturals.                   *)
(***************************************************************************)
EXTENDS Integers, Sequences, FiniteSets, TLC

\* ------------------------------------------------------------------ bounds
MaxMsgs == 1          \* messages entering the network: texts sent and peer frames
MaxDropped == 1       \* cap on the messages receive_message drops, over all nodes
MaxRelayQueue == 1    \* NodeConfig.max_relay_queue of the modelled nodes
MaxTx == 3            \* cap on the length of a market account's transaction log
MaxSeq == 2           \* cap on Router.sequence_number, the number of routes cached
MaxEncrypts == 3      \* cap on the encrypt calls of Alice's SignalSession
MaxReplies == 1       \* cap on the encrypt calls of Bob's SignalSession
MaxDecrypts == 3      \* cap on the decrypt calls of one SignalSession

\* ------------------------------------------------------- program constants
Scale == 10000        \* fixed-point units per energy unit
Cent == 100           \* fixed-point units per 0.01 energy unit
DefaultTTL == 10      \* MessageHeader.ttl default
AckTTL == 5           \* Message.create_ack ttl
PayloadOverhead == 80 \* bytes of json.dumps of a text payload with empty content
AckPayloadSize == 171 \* bytes of json.dumps of an ACK payload (36-char id)

Nodes == {"A", "B", "C"}        \* the modelled MeshNodes
Ext == "X"                      \* a peer outside the modelled nodes
Ids == Nodes \cup {Ext}
IdOrder == <<"A", "B", "C", "X">>   \* iteration order of neighbour sets

NodeIndex(n) == CHOOSE i \in 1..Len(IdOrder) : IdOrder[i] = n
\* the fresh uuid4 of the ACK that node n builds for message id: a node builds
\* at most one ACK per message id, so this is a new id each time
AckId(n, id) == 1000 + 4 * id + NodeIndex(n)

None == <<>>                    \* Python None for an Optional[List]

\* MessagePriority and the priority_factors table, doubled (0.5 -> 1)
Priorities == {"LOW", "NORMAL", "HIGH", "URGENT"}
priority_factors2(p) ==
    CASE p = "LOW" -> 1 [] p = "NORMAL" -> 2 [] p = "HIGH" -> 3 [] p = "URGENT" -> 4

\* ------------------------------------------------------------ arithmetic
\* round(num / den) to the nearest integer, ties to even (Python's round)
RoundDiv(num, den) ==
    LET q == num \div den
        r == num % den
    IN  IF 2 * r > den THEN q + 1
        ELSE IF 2 * r < den THEN q
        ELSE IF q % 2 = 0 THEN q ELSE q + 1

\* --------------------------------------------------------------- Message
NoMsg == [message_id |-> 0, sender_id |-> "", recipient_id |-> "",
          message_type |-> "none", priority |-> "NORMAL", ttl |-> 0,
          size_bytes |-> 0, ack_for |-> 0, onion_layers |-> <<>>,
          hops_taken |-> <<>>, energy_cost |-> 0, is_encrypted |-> FALSE,
          signature |-> "None"]

create_text_message(id, sender_id, recipient_id, content_len, priority) ==
    [message_id |-> id, sender_id |-> sender_id, recipient_id |-> recipient_id,
     message_type |-> "text", priority |-> priority, ttl |-> DefaultTTL,
     size_bytes |-> PayloadOverhead + content_len, ack_for |-> 0,
     onion_layers |-> <<>>, hops_taken |-> <<>>, energy_cost |-> 0,
     is_encrypted |-> FALSE, signature |-> "None"]

create_ack(id, original_message_id, sender_id, recipient_id) ==
    [message_id |-> id, sender_id |-> sender_id, recipient_id |-> recipient_id,
     message_type |-> "ack", priority |-> "HIGH", ttl |-> AckTTL,
     size_bytes |-> AckPayloadSize, ack_for |-> original_message_id,
     onion_layers |-> <<>>, hops_taken |-> <<>>, energy_cost |-> 0,
     is_encrypted |-> FALSE, signature |-> "None"]

\* variants of add_hop: one spends two units of ttl per hop, one spends none
add_hop_ttl_minus_two(msg, node_id) ==
    [msg EXCEPT !.hops_taken = Append(@, node_id), !.ttl = @ - 2]

add_hop_keeps_ttl(msg, node_id) ==
    [msg EXCEPT !.hops_taken = Append(@, node_id)]

add_hop(msg, node_id) ==
    [msg EXCEPT !.hops_taken = Append(@, node_id), !.ttl = @ - 1]

is_expired(msg) == msg.ttl <= 0

InHops(msg, node_id) == \E i \in 1..Len(msg.hops_taken) : msg.hops_taken[i] = node_id

\* a variant of should_relay without the loop detection
should_relay_no_loop_check(msg, current_node_id) ==
    /\ ~is_expired(msg)
    /\ msg.recipient_id # current_node_id

\* a variant of should_relay without the expiry test
should_relay_when_expired(msg, current_node_id) ==
    /\ msg.recipient_id # current_node_id
    /\ ~InHops(msg, current_node_id)

should_relay(msg, current_node_id) ==
    /\ ~is_expired(msg)
    /\ msg.recipient_id # current_node_id
    /\ ~InHops(msg, current_node_id)

\* 100 * (1 + size_kb * 0.1) * priority_factor * (1 + expected_hops * 0.2),
\* rounded to 2 decimals; in cents this is
\* (10240 + size) * pf2 * (10 + 2 * hops) * 25 / 512
calculate_energy_cost(msg) ==
    LET expected_hops == 10 - msg.ttl
    IN  Cent * RoundDiv((10240 + msg.size_bytes) * priority_factors2(msg.priority)
                          * (10 + 2 * expected_hops) * 25, 512)

\* round(cost * 0.1, 2)
get_relay_reward(msg) == Cent * RoundDiv(calculate_energy_cost(msg) \div Cent, 10)

\* json round trip of Message.to_wire_format / from_wire_format: the wire
\* dictionary has no onion_layers key, so the decoded message has none
to_wire_format(msg) ==
    [header |-> [message_id |-> msg.message_id, sender_id |-> msg.sender_id,
                 recipient_id |-> msg.recipient_id, message_type |-> msg.message_type,
                 priority |-> msg.priority, ttl |-> msg.ttl],
     payload |-> [size_bytes |-> msg.size_bytes, ack_for |-> msg.ack_for],
     hops_taken |-> msg.hops_taken, energy_cost |-> msg.energy_cost,
     is_encrypted |-> msg.is_encrypted, signature |-> msg.signature]

from_wire_format(data) ==
    [message_id |-> data.header.message_id, sender_id |-> data.header.sender_id,
     recipient_id |-> data.header.recipient_id,
     message_type |-> data.header.message_type, priority |-> data.header.priority,
     ttl |-> data.header.ttl, size_bytes |-> data.payload.size_bytes,
     ack_for |-> data.payload.ack_for, onion_layers |-> <<>>,
     hops_taken |-> data.hops_taken, energy_cost |-> data.energy_cost,
     is_encrypted |-> data.is_encrypted, signature |-> data.signature]

\* ---------------------------------------------------------- EnergyAccount
NewAccount(node_id, balance, is_plugged_in, relay_multiplier10) ==
    [node_id |-> node_id, balance |-> balance, total_earned |-> 0, total_spent |-> 0,
     messages_sent |-> 0, messages_relayed |-> 0, messages_received |-> 0,
     transactions |-> <<>>, is_plugged_in |-> is_plugged_in,
     relay_multiplier10 |-> relay_multiplier10]

\* a variant of can_afford that needs more than the amount
can_afford_strictly_more(acct, amount) == acct.balance > amount

\* a variant of can_afford that accepts any positive balance
can_afford_positive_balance(acct, amount) == acct.balance > 0

can_afford(acct, amount) == acct.balance >= amount

EnergyTransaction(acct, from_node, to_node, amount, reason, message_id) ==
    [transaction_id |-> Len(acct.transactions), from_node |-> from_node,
     to_node |-> to_node, amount |-> amount, reason |-> reason,
     message_id |-> message_id]

\* a variant of debit that counts only sends in total_spent
debit_counts_sends_only(acct, amount, reason, message_id) ==
    IF ~can_afford(acct, amount) THEN acct
    ELSE [acct EXCEPT
            !.balance = @ - amount,
            !.total_spent = IF reason = "send" THEN @ + amount ELSE @,
            !.messages_sent = IF reason = "send" THEN @ + 1 ELSE @,
            !.transactions = Append(@, EnergyTransaction(acct, acct.node_id,
                                        "network", amount, reason, message_id))]

\* a variant of debit that takes the amount without testing the balance
debit_without_balance_test(acct, amount, reason, message_id) ==
    [acct EXCEPT
        !.balance = @ - amount,
        !.total_spent = @ + amount,
        !.messages_sent = IF reason = "send" THEN @ + 1 ELSE @,
        !.transactions = Append(@, EnergyTransaction(acct, acct.node_id,
                                    "network", amount, reason, message_id))]

debit(acct, amount, reason, message_id) ==
    IF ~can_afford(acct, amount) THEN acct
    ELSE [acct EXCEPT
            !.balance = @ - amount,
            !.total_spent = @ + amount,
            !.messages_sent = IF reason = "send" THEN @ + 1 ELSE @,
            !.transactions = Append(@, EnergyTransaction(acct, acct.node_id,
                                        "network", amount, reason, message_id))]

\* a variant of credit that logs the amount before the relay multiplier
credit_logs_base_amount(acct, amount, reason, from_node, message_id) ==
    LET amt == IF reason = "relay" /\ acct.is_plugged_in
               THEN (amount * acct.relay_multiplier10) \div 10 ELSE amount
    IN  [acct EXCEPT
            !.balance = @ + amt,
            !.total_earned = @ + amt,
            !.messages_relayed = IF reason = "relay" THEN @ + 1 ELSE @,
            !.messages_received = IF reason = "receive" THEN @ + 1 ELSE @,
            !.transactions = Append(@, EnergyTransaction(acct, from_node,
                                        acct.node_id, amount, reason, message_id))]

\* a variant of credit that leaves the relay counter of the account alone
credit_skips_relay_counter(acct, amount, reason, from_node, message_id) ==
    LET amt == IF reason = "relay" /\ acct.is_plugged_in
               THEN (amount * acct.relay_multiplier10) \div 10 ELSE amount
    IN  [acct EXCEPT
            !.balance = @ + amt,
            !.total_earned = @ + amt,
            !.messages_received = IF reason = "receive" THEN @ + 1 ELSE @,
            !.transactions = Append(@, EnergyTransaction(acct, from_node,
                                        acct.node_id, amt, reason, message_id))]

credit(acct, amount, reason, from_node, message_id) ==
    LET amt == IF reason = "relay" /\ acct.is_plugged_in
               THEN (amount * acct.relay_multiplier10) \div 10 ELSE amount
    IN  [acct EXCEPT
            !.balance = @ + amt,
            !.total_earned = @ + amt,
            !.messages_relayed = IF reason = "relay" THEN @ + 1 ELSE @,
            !.messages_received = IF reason = "receive" THEN @ + 1 ELSE @,
            !.transactions = Append(@, EnergyTransaction(acct, from_node,
                                        acct.node_id, amt, reason, message_id))]

\* ------------------------------------------------------ Router.find_route
\* a variant of GraphGet that reads the view as undirected
GraphGet_undirected(graph, current) ==
    SelectSeq(IdOrder, LAMBDA x : \/ current \in DOMAIN graph /\ x \in graph[current]
                                  \/ x \in DOMAIN graph /\ current \in graph[x])

\* network_graph.get(current, set()), as a sequence in iteration order
GraphGet(graph, current) ==
    IF current \in DOMAIN graph
    THEN SelectSeq(IdOrder, LAMBDA x : x \in graph[current])
    ELSE <<>>

RECURSIVE ScanNeighbors(_, _, _, _, _, _)
\* the for loop over the neighbours of the dequeued node: returns
\* [found |-> path] or [visited, queue] after the loop
ScanNeighbors(nbrs, i, path, destination, visited, queue) ==
    IF i > Len(nbrs) THEN [found |-> None, visited |-> visited, queue |-> queue]
    ELSE IF nbrs[i] = destination
         THEN [found |-> Append(path, nbrs[i]), visited |-> visited, queue |-> queue]
    ELSE IF nbrs[i] \notin visited
         THEN ScanNeighbors(nbrs, i + 1, path, destination,
                            visited \cup {nbrs[i]}, Append(queue, Append(path, nbrs[i])))
    ELSE ScanNeighbors(nbrs, i + 1, path, destination, visited, queue)

RECURSIVE BFS(_, _, _, _)
\* the while loop: queue holds the paths, the current node is a path's last node
BFS(graph, destination, visited, queue) ==
    IF queue = <<>> THEN None
    ELSE LET path == Head(queue)
             current == path[Len(path)]
             s == ScanNeighbors(GraphGet(graph, current), 1, path, destination,
                                visited, Tail(queue))
         IN  IF s.found # None THEN s.found
             ELSE BFS(graph, destination, s.visited, s.queue)

\* a variant of find_route that assumes a direct link to a destination that
\* is not a key of the view
find_route_assumes_link(node_id, destination, network_graph) ==
    IF node_id = destination THEN <<node_id>>
    ELSE IF destination \notin DOMAIN network_graph THEN <<node_id, destination>>
    ELSE BFS(network_graph, destination, {node_id}, << <<node_id>> >>)

find_route(node_id, destination, network_graph) ==
    IF node_id = destination THEN <<node_id>>
    ELSE IF destination \notin DOMAIN network_graph THEN None
    ELSE BFS(network_graph, destination, {node_id}, << <<node_id>> >>)

\* ================================================================ state
\* ========================================================= SignalSession
\* Keys are symbolic terms.  A key pair is a number, and so is its public
\* half; a Diffie-Hellman output is the set of the two key pairs involved; a
\* root key is the sequence of the inputs fed to the root KDF since the
\* initial salt; a chain key is the root-KDF output it started from and the
\* number of chain-KDF steps made since.
Sessions == {"Alice", "Bob"}
Peer(p) == IF p = "Alice" THEN "Bob" ELSE "Alice"
Plaintexts == {"hello", "reply"}
IVs == {1}

\* the k-th key pair made by p's KeyManager; its identity key is the 0-th
KeyId(p, k) == (IF p = "Alice" THEN 10 ELSE 20) + k

InitSalt == <<>>                         \* b"meshphone_signal_init"
ZeroKey == [hist |-> <<>>, n |-> 0]      \* b"\x00" * 32
ForgedTag == [key |-> [hist |-> <<>>, n |-> 0 - 1], iv |-> 0, pt |-> ""]

\* KeyManager.perform_dh: X25519 of a private and a public key
perform_dh(our_private, their_public) == {our_private, their_public}

\* SignalSession._kdf_rk: (new_root_key, new_chain_key)
_kdf_rk(salt, input_key_material) ==
    [root_key |-> Append(salt, input_key_material),
     chain_key |-> [hist |-> Append(salt, input_key_material), n |-> 0]]

\* variant: the chain KDF does not move the chain key
_kdf_ck_keeps_chain_key(chain_key) ==
    [chain_key |-> chain_key, cipher_key |-> chain_key]

\* SignalSession._kdf_ck: (next_chain_key, message_keys); the cipher key is a
\* function of the chain key it was derived from
_kdf_ck(chain_key) ==
    [chain_key |-> [chain_key EXCEPT !.n = @ + 1], cipher_key |-> chain_key]

\* the chain key after k more chain-KDF steps (the loop of decrypt)
RECURSIVE AdvanceChain(_, _)
AdvanceChain(chain_key, k) ==
    IF k <= 0 THEN chain_key ELSE AdvanceChain(_kdf_ck(chain_key).chain_key, k - 1)

\* AES-256-GCM: the tag binds key, IV and content
GcmTag(cipher_key, iv, plaintext) == [key |-> cipher_key, iv |-> iv, pt |-> plaintext]
GcmEncrypt(cipher_key, iv, plaintext) ==
    [ciphertext |-> [key |-> cipher_key, iv |-> iv, pt |-> plaintext],
     tag |-> GcmTag(cipher_key, iv, plaintext)]

\* decryptor.finalize(): the plaintext, or the InvalidTag exception
GcmDecrypt(cipher_key, iv, tag, ciphertext) ==
    IF /\ ciphertext.key = cipher_key
       /\ ciphertext.iv = iv
       /\ tag = GcmTag(cipher_key, iv, ciphertext.pt)
    THEN ciphertext.pt
    ELSE "InvalidTag"

\* RatchetState; dh_keypair = 0 stands for ratchet_state = None
RatchetState(dh_keypair, dh_remote_public, root_key, chain_key_send, chain_key_recv) ==
    [dh_keypair |-> dh_keypair, dh_remote_public |-> dh_remote_public,
     root_key |-> root_key, chain_key_send |-> chain_key_send,
     chain_key_recv |-> chain_key_recv, message_number_send |-> 0,
     message_number_recv |-> 0, previous_chain_length |-> 0]

NoRatchetState == RatchetState(0, 0, InitSalt, ZeroKey, ZeroKey)

\* SignalSession._dh_ratchet, new_dh_keypair being the key pair it generates
_dh_ratchet(state, remote_public, new_dh_keypair) ==
    LET dh_output == perform_dh(state.dh_keypair, remote_public)
        first == _kdf_rk(state.root_key, dh_output)
        dh_output2 == perform_dh(new_dh_keypair, remote_public)
        second == _kdf_rk(first.root_key, dh_output2)
    IN  [state EXCEPT !.root_key = second.root_key,
                      !.dh_keypair = new_dh_keypair,
                      !.dh_remote_public = remote_public,
                      !.chain_key_send = first.chain_key,
                      !.chain_key_recv = second.chain_key,
                      !.message_number_send = 0,
                      !.message_number_recv = 0]

\* =========================================================== OnionRouter
AesBlock == 16            \* AES block size in bytes
RoutingJsonLen == 34      \* bytes of json.dumps of the routing info of one hop
OnionPayloads == {"sealed-1", "sealed-2"}

\* KeyManager.identity_key and KeyManager.ephemeral_key of node n
IdentityKeyOf(n) == 30 + NodeIndex(n)
EphemeralKeyOf(n) == 40 + NodeIndex(n)
route_keys == [n \in Ids |-> IdentityKeyOf(n)]

NoRoutingInfo == [next_hop |-> "", hop_number |-> 0]
Undecodable == [content |-> NoRoutingInfo, len |-> 0 - 1]

\* a variant of _derive_layer_keys that derives the keys from the hop id alone
_derive_layer_keys_from_hop_id(shared_secret, hop_id) ==
    [cipher_key |-> [secret |-> {}, hop |-> hop_id, use |-> "cipher"],
     mac_key |-> [secret |-> {}, hop |-> hop_id, use |-> "mac"]]

\* OnionRouter._derive_layer_keys: (cipher_key, mac_key)
_derive_layer_keys(shared_secret, hop_id) ==
    [cipher_key |-> [secret |-> shared_secret, hop |-> hop_id, use |-> "cipher"],
     mac_key |-> [secret |-> shared_secret, hop |-> hop_id, use |-> "mac"]]

HmacSha256(mac_key, iv, data) == [key |-> mac_key, iv |-> iv, data |-> data]

\* OnionRouter._encrypt_layer: AES-256-CBC over the padded plaintext, then
\* the MAC over IV and ciphertext
_encrypt_layer(plaintext, cipher_key, mac_key, iv) ==
    LET padding_length == AesBlock - (plaintext.len % AesBlock)
        ciphertext == [key |-> cipher_key, iv |-> iv, content |-> plaintext.content,
                       len |-> plaintext.len + padding_length,
                       last_byte |-> padding_length]
    IN  [encrypted_data |-> ciphertext, iv |-> iv,
         mac |-> HmacSha256(mac_key, iv, ciphertext)]

\* OnionRouter._decrypt_layer: the plaintext with the padding removed, or
\* (an exception, or bytes that are not the JSON) Undecodable
_decrypt_layer(layer, cipher_key, mac_key) ==
    IF layer.mac # HmacSha256(mac_key, layer.iv, layer.encrypted_data)
    THEN Undecodable
    ELSE IF layer.encrypted_data.key # cipher_key \/ layer.encrypted_data.iv # layer.iv
    THEN Undecodable
    ELSE LET padding_length == layer.encrypted_data.last_byte
         IN  [content |-> layer.encrypted_data.content,
              len |-> layer.encrypted_data.len - padding_length]

\* variant: every relay is told its own name as the next hop
next_hop_is_the_relay(route, i) == route[i + 1]

\* create_onion: the next hop written into the layer of the i-th relay
\* (route is 1-based here: route[1] is the sender, route[i + 1] the i-th relay)
OnionNextHop(route, i) ==
    IF i < Len(route) - 2 THEN route[i + 2] ELSE route[Len(route)]

\* OnionRouter.create_onion, run by the sender route[1]
OnionLayers(route, iv) ==
    [i \in 1..(Len(route) - 2) |->
        LET relay_id == route[i + 1]
            routing_json == [content |-> [next_hop |-> OnionNextHop(route, i),
                                          hop_number |-> i],
                             len |-> RoutingJsonLen]
            shared_secret == perform_dh(EphemeralKeyOf(route[1]), route_keys[relay_id])
            keys == _derive_layer_keys(shared_secret, relay_id)
        IN  _encrypt_layer(routing_json, keys.cipher_key, keys.mac_key, iv)]

OnionPacket(layers, final_payload) == [layers |-> layers, final_payload |-> final_payload]
NoPacket == OnionPacket(<<>>, "")

VARIABLES
    config,             \* NodeConfig of each node (fixed after construction)
    network_graph,      \* MeshNode.network_graph of each node
    outgoing_queue,     \* MeshNode.outgoing_queue
    relay_queue,        \* MeshNode.relay_queue
    received_messages,  \* MeshNode.received_messages
    stats,              \* MeshNode.stats
    seen_message_ids,   \* MeshNode.seen_message_ids
    energy_account,     \* MeshNode.energy_account
    message_history,    \* MeshPhoneApp.message_history: the incoming bubbles
    frames,             \* messages handed to the caller for transmission
    nextId,             \* the next fresh message id
    accounts,           \* EnergyMarket.accounts
    initial_balance,    \* the initial_balance each market account was created with
    total_energy_in_system,   \* EnergyMarket.total_energy_in_system
    neighbors,          \* Router.neighbors of one Router
    routing_table,      \* Router.routing_table of that Router
    sequence_number,    \* Router.sequence_number of that Router
    found_route,        \* the last call of Router.find_route and what it returned
    ratchet_state,      \* SignalSession.ratchet_state of Alice's and of Bob's session
    skipped_message_keys,   \* SignalSession.skipped_message_keys
    key_count,          \* the ephemeral key pairs each KeyManager has generated
    encrypted,          \* the encrypted messages each session has returned, in order
    decrypt_log,        \* the decrypt calls of each session: argument and outcome
    onion_route,        \* the route the onion was created for
    onion_payload,      \* the final payload the onion was created with
    onion_packet,       \* the OnionPacket as it travels: create_onion, then each peel
    onion_holder,       \* the node the packet was handed to last
    peeled,             \* the next hops returned by the peel_layer calls so far
    extracted,          \* the last extract_payload call: layers peeled before, result
    peel_try,           \* the last peel_layer call of a node listening in on the link
    decoded,            \* the last wire round trip: the message and what came back
    pc,                 \* where each thread of one app stands inside its handler
    thread_msg,         \* the Message each radio callback has deserialized
    queue_copy,         \* the copy of relay_queue the update thread iterates over
    last                \* the last call: operation, node, message argument, return value

nodeVars == <<config, network_graph, outgoing_queue, relay_queue, received_messages,
              stats, seen_message_ids, energy_account, message_history, frames,
              nextId>>
marketVars == <<accounts, initial_balance, total_energy_in_system>>
routerVars == <<neighbors, routing_table, sequence_number, found_route>>
signalVars == <<ratchet_state, skipped_message_keys, key_count, encrypted, decrypt_log>>
onionVars == <<onion_route, onion_payload, onion_packet, onion_holder, peeled, extracted,
              peel_try>>
wireVars == <<decoded>>
threadVars == <<pc, thread_msg, queue_copy>>
vars == <<nodeVars, marketVars, routerVars, signalVars, onionVars, wireVars,
          threadVars, last>>

\* ------------------------------------------------------------ NodeConfig
\* A has the default balance, B holds exactly the cost of one NORMAL message
\* of ContentLen bytes and is plugged in, C cannot afford a message
InitialEnergy(n) ==
    CASE n = "A" -> 1000 * Scale [] n = "B" -> 10501 * Cent [] n = "C" -> 50 * Scale

NodeConfig(n, enable_relay) ==
    [node_id |-> n, enable_relay |-> enable_relay, is_plugged_in |-> (n = "B"),
     max_relay_queue |-> MaxRelayQueue, initial_energy |-> InitialEnergy(n)]

\* ----------------------------------------------------------------- inputs
\* with this length no cost or reward of a modelled message falls on a half
\* cent, where the rounding of the float product would decide
ContentLens == {433}
SendPriorities == {"NORMAL", "HIGH"}

\* the radio topology: who is in radio range of whom (a line A - B - C - X)
Topology == ("A" :> {"B"}) @@ ("B" :> {"A", "C"}) @@ ("C" :> {"B", "X"}) @@ ("X" :> {"C"})

\* views of the topology handed to update_network_graph
LineView == Topology
Views == {LineView}

\* frames built by the peer outside the modelled nodes: its ACK of message 1,
\* as Message.create_ack returns it
ExtFrames == {create_ack(101, 1, Ext, "A")}

\* a frame the peer forwards for others: an ACK for A built by a remote node Z
\* that four relays, the peer last, have passed on, so it arrives with ttl 1
RelayedFrames ==
    {add_hop(add_hop(add_hop(add_hop(create_ack(102, 2, "Z", "A"), "Y1"), "Y2"), "Y3"),
             Ext)}

\* ------------------------------------------------------------- MeshNode
InitStats == [messages_sent |-> 0, messages_relayed |-> 0, messages_received |-> 0,
              messages_dropped |-> 0, relay_queue_full |-> 0]

InitNodes ==
    /\ config \in {[n \in Nodes |-> NodeConfig(n, n # "C" \/ e)] : e \in BOOLEAN}
    /\ network_graph = [n \in Nodes |-> <<>>]
    /\ outgoing_queue = [n \in Nodes |-> <<>>]
    /\ relay_queue = [n \in Nodes |-> <<>>]
    /\ received_messages = [n \in Nodes |-> <<>>]
    /\ stats = [n \in Nodes |-> InitStats]
    /\ seen_message_ids = [n \in Nodes |-> {}]
    /\ energy_account = [n \in Nodes |->
            NewAccount(n, config[n].initial_energy, config[n].is_plugged_in, 10)]
    /\ message_history = [n \in Nodes |-> <<>>]
    /\ frames = {}
    /\ nextId = 1

InitMarket ==
    /\ accounts = <<>>
    /\ initial_balance = <<>>
    /\ total_energy_in_system = 0

\* Router.__init__, with no find_route call made yet
NoRoute == [node |-> "", destination |-> "", path |-> None]

InitRouter ==
    /\ neighbors = {}
    /\ routing_table = <<>>
    /\ sequence_number = 0
    /\ found_route = NoRoute

\* SignalSession.__init__ for both sessions
InitSignal ==
    /\ ratchet_state = [p \in Sessions |-> NoRatchetState]
    /\ skipped_message_keys = [p \in Sessions |-> {}]
    /\ key_count = [p \in Sessions |-> 0]
    /\ encrypted = [p \in Sessions |-> <<>>]
    /\ decrypt_log = [p \in Sessions |-> <<>>]

\* the threads of one MeshPhoneApp: the callbacks of its two radios run on the
\* threads of the peers that transmit, the update loop on its own thread
RadioThreads == {"ble", "wifi"}
UpdateThread == "update"

InitThreads ==
    /\ pc = [t \in RadioThreads \cup {UpdateThread} |-> "idle"]
    /\ thread_msg = [t \in RadioThreads |-> NoMsg]
    /\ queue_copy = <<>>

\* no frame has been decoded yet
InitWire == decoded = [msg |-> NoMsg, result |-> NoMsg]

\* no onion has been created yet
NoExtract == [after |-> 0 - 1, result |-> ""]

\* no node has tried to peel a packet it overheard
NoTry == [node |-> "", my_node_id |-> "", sender_public_key |-> 0, after |-> 0 - 1,
          next_hop |-> ""]

InitOnion ==
    /\ onion_route = <<>>
    /\ onion_payload = ""
    /\ onion_packet = NoPacket
    /\ onion_holder = ""
    /\ peeled = <<>>
    /\ extracted = NoExtract
    /\ peel_try = NoTry

Init ==
    /\ InitNodes
    /\ InitMarket
    /\ InitRouter
    /\ InitSignal
    /\ InitOnion
    /\ InitWire
    /\ InitThreads
    /\ last = [op |-> "init", node |-> "", msg |-> NoMsg, ret |-> "none"]

\* messages receive_message has dropped so far, over all nodes
Dropped == stats["A"].messages_dropped + stats["B"].messages_dropped
             + stats["C"].messages_dropped

\* messages that entered the network so far
Entered == (nextId - 1) + Cardinality(frames \cap ExtFrames)

update_network_graph(n, graph) ==
    /\ network_graph[n] # graph          \* a call that changes the view
    /\ network_graph' = [network_graph EXCEPT ![n] = graph]
    /\ last' = [op |-> "update_network_graph", node |-> n, msg |-> NoMsg,
                ret |-> "none"]
    /\ UNCHANGED <<config, outgoing_queue, relay_queue, received_messages, stats,
                   seen_message_ids, energy_account, message_history, frames, nextId>>
    /\ UNCHANGED <<marketVars, routerVars, signalVars, onionVars, wireVars,
                   threadVars>>

\* MeshNode.send_message; the message it returns is what the caller transmits
send_message(n, recipient_id, content_len, priority) ==
    LET msg == create_text_message(nextId, n, recipient_id, content_len, priority)
        energy_cost == calculate_energy_cost(msg)
        route == find_route(n, recipient_id, network_graph[n])
        sent == add_hop([msg EXCEPT !.energy_cost = energy_cost], n)
    IN  /\ Entered < MaxMsgs
        /\ IF ~can_afford(energy_account[n], energy_cost)
           THEN /\ last' = [op |-> "send_message", node |-> n, msg |-> msg,
                            ret |-> "insufficient_energy"]
                /\ UNCHANGED <<energy_account, outgoing_queue, stats, frames, nextId>>
           ELSE IF route = None
           THEN /\ last' = [op |-> "send_message", node |-> n, msg |-> msg,
                            ret |-> "no_route"]
                /\ UNCHANGED <<energy_account, outgoing_queue, stats, frames, nextId>>
           ELSE /\ energy_account' = [energy_account EXCEPT
                        ![n] = debit(@, energy_cost, "send", msg.message_id)]
                /\ outgoing_queue' = [outgoing_queue EXCEPT ![n] = Append(@, sent)]
                /\ stats' = [stats EXCEPT ![n].messages_sent = @ + 1]
                /\ frames' = frames \cup {sent}
                /\ nextId' = nextId + 1
                /\ last' = [op |-> "send_message", node |-> n, msg |-> msg, ret |-> "ok"]
        /\ UNCHANGED <<config, network_graph, relay_queue, received_messages,
                       seen_message_ids, message_history>>
        /\ UNCHANGED <<marketVars, routerVars, signalVars, onionVars, wireVars,
                   threadVars>>

\* the peer outside the modelled nodes transmits one of its frames
peer_transmit(m) ==
    /\ Entered < MaxMsgs
    /\ m \notin frames
    /\ frames' = frames \cup {m}
    /\ last' = [op |-> "peer_transmit", node |-> Ext, msg |-> m, ret |-> "none"]
    /\ UNCHANGED <<config, network_graph, outgoing_queue, relay_queue,
                   received_messages, stats, seen_message_ids, energy_account,
                   message_history, nextId>>
    /\ UNCHANGED <<marketVars, routerVars, signalVars, onionVars, wireVars,
                   threadVars>>

\* the peer outside the modelled nodes forwards a frame of another node
peer_forward(m) ==
    /\ m \notin frames
    /\ frames' = frames \cup {m}
    /\ last' = [op |-> "peer_forward", node |-> Ext, msg |-> m, ret |-> "none"]
    /\ UNCHANGED <<config, network_graph, outgoing_queue, relay_queue,
                   received_messages, stats, seen_message_ids, energy_account,
                   message_history, nextId>>
    /\ UNCHANGED <<marketVars, routerVars, signalVars, onionVars, wireVars,
                   threadVars>>

\* the radio peer a frame comes from: the node that transmitted it last
RadioSender(m) ==
    IF m.hops_taken = <<>> THEN m.sender_id ELSE m.hops_taken[Len(m.hops_taken)]

MessageBubble(sender_id, msg) == [message_id |-> msg.message_id, sender_id |-> sender_id]

\* variant: the capacity test lets one more message in
relay_queue_full_above_capacity(n) ==
    Len(relay_queue[n]) > config[n].max_relay_queue

\* the capacity test of receive_message
relay_queue_full(n) == Len(relay_queue[n]) >= config[n].max_relay_queue

\* a variant of receive_message that tests the seen-set only for a message it
\* would relay
receive_message_seen_test_for_relay_only(n, msg) ==
    IF msg.message_id \in seen_message_ids[n] /\ msg.recipient_id # n
    THEN /\ Dropped < MaxDropped
         /\ stats' = [stats EXCEPT ![n].messages_dropped = @ + 1]
         /\ last' = [op |-> "receive_message", node |-> n, msg |-> msg,
                     ret |-> "seen"]
         /\ UNCHANGED <<seen_message_ids, received_messages, outgoing_queue,
                        relay_queue, energy_account, nextId>>
    ELSE IF msg.recipient_id = n
    THEN /\ seen_message_ids' = [seen_message_ids EXCEPT ![n] = @ \cup {msg.message_id}]
         /\ received_messages' = [received_messages EXCEPT ![n] = Append(@, msg)]
         /\ stats' = [stats EXCEPT ![n].messages_received = @ + 1]
         /\ outgoing_queue' = [outgoing_queue EXCEPT
                ![n] = Append(@, create_ack(AckId(n, msg.message_id), msg.message_id,
                                           n, msg.sender_id))]
         /\ last' = [op |-> "receive_message", node |-> n, msg |-> msg,
                     ret |-> "delivered"]
         /\ UNCHANGED <<relay_queue, energy_account, nextId>>
    ELSE IF ~config[n].enable_relay
    THEN /\ Dropped < MaxDropped
         /\ seen_message_ids' = [seen_message_ids EXCEPT ![n] = @ \cup {msg.message_id}]
         /\ stats' = [stats EXCEPT ![n].messages_dropped = @ + 1]
         /\ last' = [op |-> "receive_message", node |-> n, msg |-> msg,
                     ret |-> "relay_disabled"]
         /\ UNCHANGED <<received_messages, outgoing_queue, relay_queue,
                        energy_account, nextId>>
    ELSE IF ~should_relay(msg, n)
    THEN /\ Dropped < MaxDropped
         /\ seen_message_ids' = [seen_message_ids EXCEPT ![n] = @ \cup {msg.message_id}]
         /\ stats' = [stats EXCEPT ![n].messages_dropped = @ + 1]
         /\ last' = [op |-> "receive_message", node |-> n, msg |-> msg,
                     ret |-> "not_relayable"]
         /\ UNCHANGED <<received_messages, outgoing_queue, relay_queue,
                        energy_account, nextId>>
    ELSE IF relay_queue_full(n)
    THEN /\ Dropped < MaxDropped
         /\ seen_message_ids' = [seen_message_ids EXCEPT ![n] = @ \cup {msg.message_id}]
         /\ stats' = [stats EXCEPT ![n].relay_queue_full = @ + 1,
                                   ![n].messages_dropped = @ + 1]
         /\ last' = [op |-> "receive_message", node |-> n, msg |-> msg,
                     ret |-> "queue_full"]
         /\ UNCHANGED <<received_messages, outgoing_queue, relay_queue,
                        energy_account, nextId>>
    ELSE LET hopped == add_hop(msg, n)
             relay_reward == get_relay_reward(hopped)
         IN  /\ seen_message_ids' = [seen_message_ids EXCEPT
                    ![n] = @ \cup {msg.message_id}]
             /\ relay_queue' = [relay_queue EXCEPT ![n] = Append(@, hopped)]
             /\ energy_account' = [energy_account EXCEPT
                    ![n] = credit(@, relay_reward, "relay", msg.sender_id,
                                  msg.message_id)]
             /\ stats' = [stats EXCEPT ![n].messages_relayed = @ + 1]
             /\ last' = [op |-> "receive_message", node |-> n, msg |-> msg,
                         ret |-> "relayed"]
             /\ UNCHANGED <<received_messages, outgoing_queue, nextId>>

\* MeshNode.receive_message(msg) at node n; the return value goes to last'.ret
receive_message(n, msg) ==
    IF msg.message_id \in seen_message_ids[n]
    THEN /\ Dropped < MaxDropped
         /\ stats' = [stats EXCEPT ![n].messages_dropped = @ + 1]
         /\ last' = [op |-> "receive_message", node |-> n, msg |-> msg,
                     ret |-> "seen"]
         /\ UNCHANGED <<seen_message_ids, received_messages, outgoing_queue,
                        relay_queue, energy_account, nextId>>
    ELSE IF msg.recipient_id = n
    THEN /\ seen_message_ids' = [seen_message_ids EXCEPT ![n] = @ \cup {msg.message_id}]
         /\ received_messages' = [received_messages EXCEPT ![n] = Append(@, msg)]
         /\ stats' = [stats EXCEPT ![n].messages_received = @ + 1]
         /\ outgoing_queue' = [outgoing_queue EXCEPT
                ![n] = Append(@, create_ack(AckId(n, msg.message_id), msg.message_id,
                                           n, msg.sender_id))]
         /\ last' = [op |-> "receive_message", node |-> n, msg |-> msg,
                     ret |-> "delivered"]
         /\ UNCHANGED <<relay_queue, energy_account, nextId>>
    ELSE IF ~config[n].enable_relay
    THEN /\ Dropped < MaxDropped
         /\ seen_message_ids' = [seen_message_ids EXCEPT ![n] = @ \cup {msg.message_id}]
         /\ stats' = [stats EXCEPT ![n].messages_dropped = @ + 1]
         /\ last' = [op |-> "receive_message", node |-> n, msg |-> msg,
                     ret |-> "relay_disabled"]
         /\ UNCHANGED <<received_messages, outgoing_queue, relay_queue,
                        energy_account, nextId>>
    ELSE IF ~should_relay(msg, n)
    THEN /\ Dropped < MaxDropped
         /\ seen_message_ids' = [seen_message_ids EXCEPT ![n] = @ \cup {msg.message_id}]
         /\ stats' = [stats EXCEPT ![n].messages_dropped = @ + 1]
         /\ last' = [op |-> "receive_message", node |-> n, msg |-> msg,
                     ret |-> "not_relayable"]
         /\ UNCHANGED <<received_messages, outgoing_queue, relay_queue,
                        energy_account, nextId>>
    ELSE IF relay_queue_full(n)
    THEN /\ Dropped < MaxDropped
         /\ seen_message_ids' = [seen_message_ids EXCEPT ![n] = @ \cup {msg.message_id}]
         /\ stats' = [stats EXCEPT ![n].relay_queue_full = @ + 1,
                                   ![n].messages_dropped = @ + 1]
         /\ last' = [op |-> "receive_message", node |-> n, msg |-> msg,
                     ret |-> "queue_full"]
         /\ UNCHANGED <<received_messages, outgoing_queue, relay_queue,
                        energy_account, nextId>>
    ELSE LET hopped == add_hop(msg, n)
             relay_reward == get_relay_reward(hopped)
         IN  /\ seen_message_ids' = [seen_message_ids EXCEPT
                    ![n] = @ \cup {msg.message_id}]
             /\ relay_queue' = [relay_queue EXCEPT ![n] = Append(@, hopped)]
             /\ energy_account' = [energy_account EXCEPT
                    ![n] = credit(@, relay_reward, "relay", msg.sender_id,
                                  msg.message_id)]
             /\ stats' = [stats EXCEPT ![n].messages_relayed = @ + 1]
             /\ last' = [op |-> "receive_message", node |-> n, msg |-> msg,
                         ret |-> "relayed"]
             /\ UNCHANGED <<received_messages, outgoing_queue, nextId>>

\* MeshPhoneApp._handle_radio_message(sender_id, data) at node n, for the
\* frame of message m
_handle_radio_message(n, m) ==
    LET data == to_wire_format(m)
        msg == from_wire_format(data)
    IN  /\ n \in Topology[RadioSender(m)]      \* the radio reaches its peers only
        /\ receive_message(n, msg)
        /\ message_history' =
              IF msg.recipient_id = n
              THEN [message_history EXCEPT
                      ![n] = Append(@, MessageBubble(RadioSender(m), msg))]
              ELSE message_history
        /\ UNCHANGED <<config, network_graph, frames>>
        /\ UNCHANGED <<marketVars, routerVars, signalVars, onionVars, wireVars,
                   threadVars>>

\* MeshNode.process_relay_queue; the list it returns is what the caller forwards
Routable(n, msg) ==
    LET route == find_route(n, msg.recipient_id, network_graph[n])
    IN  route # None /\ Len(route) > 1

process_relay_queue(n) ==
    LET messages_to_forward == SelectSeq(relay_queue[n], LAMBDA m : Routable(n, m))
        expired == SelectSeq(relay_queue[n],
                             LAMBDA m : ~Routable(n, m) /\ is_expired(m))
    IN  /\ relay_queue[n] # <<>>
        /\ relay_queue' = [relay_queue EXCEPT
                ![n] = SelectSeq(@, LAMBDA m : ~Routable(n, m) /\ ~is_expired(m))]
        /\ stats' = [stats EXCEPT ![n].messages_dropped = @ + Len(expired)]
        /\ frames' = frames \cup {messages_to_forward[i] :
                                     i \in 1..Len(messages_to_forward)}
        /\ last' = [op |-> "process_relay_queue", node |-> n, msg |-> NoMsg,
                    ret |-> IF messages_to_forward = <<>> THEN "none" ELSE "forward"]
        /\ UNCHANGED <<config, network_graph, outgoing_queue, received_messages,
                       seen_message_ids, energy_account, message_history, nextId>>
        /\ UNCHANGED <<marketVars, routerVars, signalVars, onionVars, wireVars,
                   threadVars>>

Next ==
    \/ \E n \in Nodes, g \in Views : update_network_graph(n, g)
    \/ \E n \in Nodes, r \in Ids, l \in ContentLens, p \in SendPriorities :
            send_message(n, r, l, p)
    \/ \E m \in ExtFrames : peer_transmit(m)
    \/ \E n \in Nodes, m \in frames : _handle_radio_message(n, m)
    \/ \E n \in Nodes : process_relay_queue(n)

Spec == Init /\ [][Next]_vars

\* the links are fair: an enabled operation is eventually carried out
FairSpec == Spec /\ WF_vars(Next)

\* ------------------------------------------------------------ relay path
\* A sends texts to the peer X over the relays B and C, while the peer
\* forwards a frame that is at its last hop
NextRelay ==
    \/ \E n \in Nodes, g \in Views : update_network_graph(n, g)
    \/ \E l \in ContentLens : send_message("A", Ext, l, "NORMAL")
    \/ \E m \in RelayedFrames : peer_forward(m)
    \/ \E n \in Nodes, m \in frames : _handle_radio_message(n, m)
    \/ \E n \in Nodes : process_relay_queue(n)

SpecRelay == Init /\ [][NextRelay]_vars

\* the background tick of every node keeps calling process_relay_queue and the
\* radio keeps delivering frames; nothing makes a node learn a wider view
FairRelay ==
    /\ SpecRelay
    /\ \A n \in Nodes : WF_vars(process_relay_queue(n))
    /\ \A n \in Nodes : WF_vars(\E m \in frames : _handle_radio_message(n, m))

\* ------------------------------------------------------------ find_route
\* every view over the four identities in which no node is its own neighbour
AllViews ==
    UNION {{g \in [K -> SUBSET Ids] : \A k \in K : k \notin g[k]} : K \in SUBSET Ids}

\* the nodes are constructed and hold one view of the network
InitRoute ==
    /\ config = [n \in Nodes |-> NodeConfig(n, TRUE)]
    /\ \E g \in AllViews : network_graph = [n \in Nodes |-> g]
    /\ outgoing_queue = [n \in Nodes |-> <<>>]
    /\ relay_queue = [n \in Nodes |-> <<>>]
    /\ received_messages = [n \in Nodes |-> <<>>]
    /\ stats = [n \in Nodes |-> InitStats]
    /\ seen_message_ids = [n \in Nodes |-> {}]
    /\ energy_account = [n \in Nodes |->
            NewAccount(n, config[n].initial_energy, config[n].is_plugged_in, 10)]
    /\ message_history = [n \in Nodes |-> <<>>]
    /\ frames = {}
    /\ nextId = 1
    /\ InitMarket
    /\ InitRouter
    /\ InitSignal
    /\ InitOnion
    /\ InitWire
    /\ InitThreads
    /\ last = [op |-> "init", node |-> "", msg |-> NoMsg, ret |-> "none"]

\* node n calls self.router.find_route(destination, self.network_graph)
find_route_call(n, destination) ==
    /\ found_route' = [node |-> n, destination |-> destination,
                       path |-> find_route(n, destination, network_graph[n])]
    /\ UNCHANGED <<neighbors, routing_table, sequence_number>>
    /\ UNCHANGED <<nodeVars, marketVars, signalVars, onionVars, wireVars,
                   threadVars, last>>

NextRoute == \E n \in Nodes, d \in Ids : find_route_call(n, d)

SpecRoute == InitRoute /\ [][NextRoute]_vars

\* ========================================================== Router table
\* the Router whose table is followed: Router("A")
RouterNode == "A"

\* the arguments of the Router's operations
NeighborSets == SUBSET (Ids \ {RouterNode})
Paths == UNION {[1..k -> Ids] : k \in 0..3}

RouteEntry(destination, next_hop, hop_count, seq, is_active) ==
    [destination |-> destination, next_hop |-> next_hop, hop_count |-> hop_count,
     sequence_number |-> seq, is_active |-> is_active]

\* path.index(node_id): the first position of node_id in path
PathIndex(path, node_id) ==
    CHOOSE i \in 1..Len(path) :
        /\ path[i] = node_id
        /\ \A j \in 1..(i - 1) : path[j] # node_id

\* a variant of update_neighbors that also reactivates the entries whose next
\* hop is a neighbour again
update_neighbors_reactivates(nbrs) ==
    /\ neighbors' = nbrs
    /\ routing_table' = [d \in DOMAIN routing_table |->
            [routing_table[d] EXCEPT !.is_active = routing_table[d].next_hop \in nbrs]]
    /\ UNCHANGED <<sequence_number, found_route>>
    /\ UNCHANGED <<nodeVars, marketVars, signalVars, onionVars, wireVars,
                   threadVars, last>>

\* Router.update_neighbors: entries through a lost neighbour are deactivated
update_neighbors(nbrs) ==
    /\ neighbors' = nbrs
    /\ routing_table' = [d \in DOMAIN routing_table |->
            IF routing_table[d].next_hop \notin nbrs
            THEN [routing_table[d] EXCEPT !.is_active = FALSE]
            ELSE routing_table[d]]
    /\ UNCHANGED <<sequence_number, found_route>>
    /\ UNCHANGED <<nodeVars, marketVars, signalVars, onionVars, wireVars,
                   threadVars, last>>

\* Router.cache_route
cache_route(destination, path) ==
    /\ sequence_number < MaxSeq
    /\ IF \/ Len(path) < 2
          \/ \A i \in 1..Len(path) : path[i] # RouterNode
          \/ PathIndex(path, RouterNode) >= Len(path)
       THEN UNCHANGED <<routing_table, sequence_number>>
       ELSE LET my_index == PathIndex(path, RouterNode)
                next_hop == path[my_index + 1]
                hop_count == Len(path) - my_index
            IN  /\ sequence_number' = sequence_number + 1
                /\ routing_table' =
                     [d \in DOMAIN routing_table \cup {destination} |->
                        IF d = destination
                        THEN RouteEntry(destination, next_hop, hop_count,
                                        sequence_number + 1, TRUE)
                        ELSE routing_table[d]]
    /\ UNCHANGED <<neighbors, found_route>>
    /\ UNCHANGED <<nodeVars, marketVars, signalVars, onionVars, wireVars,
                   threadVars, last>>

\* Router.get_cached_route
get_cached_route(destination) ==
    IF /\ destination \in DOMAIN routing_table
       /\ routing_table[destination].is_active
       /\ routing_table[destination].next_hop \in neighbors
    THEN routing_table[destination].next_hop
    ELSE ""

\* Router.invalidate_route
invalidate_route(destination) ==
    /\ routing_table' =
         IF destination \in DOMAIN routing_table
         THEN [routing_table EXCEPT ![destination].is_active = FALSE]
         ELSE routing_table
    /\ UNCHANGED <<neighbors, sequence_number, found_route>>
    /\ UNCHANGED <<nodeVars, marketVars, signalVars, onionVars, wireVars,
                   threadVars, last>>

NextRouter ==
    \/ \E nbrs \in NeighborSets : update_neighbors(nbrs)
    \/ \E d \in Ids, path \in Paths : cache_route(d, path)
    \/ \E d \in Ids : invalidate_route(d)

SpecRouter == Init /\ [][NextRouter]_vars

\* the Router with routes cached and neighbours updated, and nothing else
\* touching the table
NextCache ==
    \/ \E nbrs \in NeighborSets : update_neighbors(nbrs)
    \/ \E d \in Ids, path \in Paths : cache_route(d, path)

SpecCache == Init /\ [][NextCache]_vars

\* ========================================================= Signal sessions
\* SignalSession.initialize_sender(peer_public_key): Alice, with Bob's identity key
initialize_sender(p) ==
    LET dh_keypair == KeyId(p, key_count[p] + 1)
        peer_public_key == KeyId(Peer(p), 0)
        shared_secret == perform_dh(dh_keypair, peer_public_key)
        k == _kdf_rk(InitSalt, shared_secret)
    IN  /\ ratchet_state[p] = NoRatchetState
        /\ key_count' = [key_count EXCEPT ![p] = @ + 1]
        /\ ratchet_state' = [ratchet_state EXCEPT ![p] =
                RatchetState(dh_keypair, peer_public_key, k.root_key,
                             k.chain_key, ZeroKey)]
        /\ UNCHANGED <<skipped_message_keys, encrypted, decrypt_log>>
        /\ UNCHANGED <<nodeVars, marketVars, routerVars, onionVars, wireVars,
                   threadVars, last>>

\* SignalSession.initialize_receiver(sender_public_key): Bob, with the public
\* key of the sender's session (get_public_key)
initialize_receiver(p) ==
    LET sender_public_key == ratchet_state[Peer(p)].dh_keypair
        shared_secret == perform_dh(KeyId(p, 0), sender_public_key)
        k == _kdf_rk(InitSalt, shared_secret)
        dh_keypair == KeyId(p, key_count[p] + 1)
    IN  /\ ratchet_state[p] = NoRatchetState
        /\ ratchet_state[Peer(p)] # NoRatchetState
        /\ key_count' = [key_count EXCEPT ![p] = @ + 1]
        /\ ratchet_state' = [ratchet_state EXCEPT ![p] =
                RatchetState(dh_keypair, sender_public_key, k.root_key,
                             ZeroKey, k.chain_key)]
        /\ UNCHANGED <<skipped_message_keys, encrypted, decrypt_log>>
        /\ UNCHANGED <<nodeVars, marketVars, routerVars, onionVars, wireVars,
                   threadVars, last>>

\* SignalSession.encrypt(plaintext), iv being the os.urandom of _kdf_ck
encrypt(p, plaintext, iv) ==
    LET state == ratchet_state[p]
        k == _kdf_ck(state.chain_key_send)
        sealed == GcmEncrypt(k.cipher_key, iv, plaintext)
    IN  /\ state # NoRatchetState
        /\ Len(encrypted[p]) < (IF p = "Alice" THEN MaxEncrypts ELSE MaxReplies)
        /\ ratchet_state' = [ratchet_state EXCEPT ![p] =
                [state EXCEPT !.chain_key_send = k.chain_key,
                              !.message_number_send = @ + 1]]
        /\ encrypted' = [encrypted EXCEPT ![p] = Append(@,
                [ciphertext |-> sealed.ciphertext,
                 tag |-> sealed.tag,
                 iv |-> iv,
                 dh_public |-> state.dh_keypair,
                 message_number |-> state.message_number_send,
                 previous_chain_length |-> state.previous_chain_length])]
        /\ UNCHANGED <<skipped_message_keys, key_count, decrypt_log>>
        /\ UNCHANGED <<nodeVars, marketVars, routerVars, onionVars, wireVars,
                   threadVars, last>>

\* SignalSession.decrypt(encrypted_message); what is assigned before
\* decryptor.finalize() raises stays assigned
decrypt(p, encrypted_message) ==
    LET state == ratchet_state[p]
        remote_dh_public == encrypted_message.dh_public
        ratchets == remote_dh_public # state.dh_remote_public
        turned == IF ratchets
                  THEN _dh_ratchet(state, remote_dh_public, KeyId(p, key_count[p] + 1))
                  ELSE state
        message_number == encrypted_message.message_number
        chain_key == AdvanceChain(turned.chain_key_recv,
                                  message_number - turned.message_number_recv)
        k == _kdf_ck(chain_key)
        plaintext == GcmDecrypt(k.cipher_key, encrypted_message.iv,
                                encrypted_message.tag, encrypted_message.ciphertext)
    IN  /\ state # NoRatchetState
        /\ Len(decrypt_log[p]) < MaxDecrypts
        /\ key_count' = [key_count EXCEPT ![p] = IF ratchets THEN @ + 1 ELSE @]
        /\ ratchet_state' = [ratchet_state EXCEPT ![p] =
                [turned EXCEPT !.chain_key_recv = k.chain_key,
                               !.message_number_recv = message_number + 1]]
        /\ decrypt_log' = [decrypt_log EXCEPT ![p] = Append(@,
                [message |-> encrypted_message, result |-> plaintext])]
        /\ UNCHANGED <<skipped_message_keys, encrypted>>
        /\ UNCHANGED <<nodeVars, marketVars, routerVars, onionVars, wireVars,
                   threadVars, last>>

\* what the link can hand to p: the peer's messages, as encrypted or with the tag
\* replaced
Deliverable(p) ==
    {encrypted[Peer(p)][i] : i \in DOMAIN encrypted[Peer(p)]}
        \cup {[encrypted[Peer(p)][i] EXCEPT !.tag = ForgedTag] : i \in DOMAIN encrypted[Peer(p)]}

NextSignal ==
    \/ initialize_sender("Alice")
    \/ initialize_receiver("Bob")
    \/ \E p \in Sessions, plaintext \in Plaintexts, iv \in IVs : encrypt(p, plaintext, iv)
    \/ \E p \in Sessions : \E m \in Deliverable(p) : decrypt(p, m)

\* the sessions and routers are constructed; the nodes are left as built
InitCrypto == Init /\ config["C"].enable_relay

SpecSignal == InitCrypto /\ [][NextSignal]_vars

\* ============================================================ onion path
\* every route [sender, relay1, ..., relayk, recipient] with up to two relays
OnionRoutes == UNION {[1..k -> Ids] : k \in 2..4}

\* OnionRouter.create_onion(route, route_keys, final_payload) at the sender,
\* which then hands the packet to route[2]
create_onion(route, final_payload, iv) ==
    /\ onion_route = <<>>
    /\ onion_route' = route
    /\ onion_payload' = final_payload
    /\ onion_packet' = OnionPacket(OnionLayers(route, iv), final_payload)
    /\ onion_holder' = route[2]
    /\ UNCHANGED <<peeled, extracted, peel_try>>
    /\ UNCHANGED <<nodeVars, marketVars, routerVars, signalVars, wireVars,
                   threadVars, last>>

\* OnionRouter.peel_layer(packet, my_node_id, sender_public_key) at the node
\* holding the packet, which hands the remaining packet to the next hop
peel_layer(my_node_id) ==
    LET our_layer == onion_packet.layers[1]
        remaining_layers == Tail(onion_packet.layers)
        shared_secret == perform_dh(IdentityKeyOf(my_node_id),
                                    EphemeralKeyOf(onion_route[1]))
        keys == _derive_layer_keys(shared_secret, my_node_id)
        routing_json == _decrypt_layer(our_layer, keys.cipher_key, keys.mac_key)
    IN  /\ onion_route # <<>>
        /\ my_node_id = onion_holder
        /\ onion_packet.layers # <<>>
        /\ IF routing_json.len # RoutingJsonLen
           THEN /\ peeled' = Append(peeled, "ValueError")
                /\ UNCHANGED <<onion_packet, onion_holder>>
           ELSE /\ peeled' = Append(peeled, routing_json.content.next_hop)
                /\ onion_packet' = OnionPacket(remaining_layers,
                                               onion_packet.final_payload)
                /\ onion_holder' = routing_json.content.next_hop
        /\ UNCHANGED <<onion_route, onion_payload, extracted, peel_try>>
        /\ UNCHANGED <<nodeVars, marketVars, routerVars, signalVars, wireVars,
                   threadVars, last>>

\* OnionRouter.extract_payload(packet) at the node holding the packet
extract_payload(my_node_id) ==
    /\ onion_route # <<>>
    /\ my_node_id = onion_holder
    /\ extracted' = [after |-> Len(peeled),
                     result |-> IF onion_packet.layers # <<>>
                                THEN "ValueError"
                                ELSE onion_packet.final_payload]
    /\ extracted' # extracted
    /\ UNCHANGED <<onion_route, onion_payload, onion_packet, onion_holder, peeled,
                   peel_try>>
    /\ UNCHANGED <<nodeVars, marketVars, routerVars, signalVars, wireVars,
                   threadVars, last>>

NextOnion ==
    \/ \E route \in OnionRoutes, final_payload \in OnionPayloads, iv \in IVs :
            create_onion(route, final_payload, iv)
    \/ \E n \in Ids : peel_layer(n)
    \/ \E n \in Ids : extract_payload(n)

SpecOnion == InitCrypto /\ [][NextOnion]_vars

\* the public keys a caller of peel_layer can pass as the sender's key
PublicKeys == {IdentityKeyOf(n) : n \in Ids} \cup {EphemeralKeyOf(n) : n \in Ids}

\* OnionRouter.peel_layer(packet, my_node_id, sender_public_key) run by node,
\* with its own identity key, on a copy of the packet in flight that it
\* received over the radio; the result goes to peel_try
peel_layer_overheard(node, my_node_id, sender_public_key) ==
    LET our_layer == onion_packet.layers[1]
        shared_secret == perform_dh(IdentityKeyOf(node), sender_public_key)
        keys == _derive_layer_keys(shared_secret, my_node_id)
        routing_json == _decrypt_layer(our_layer, keys.cipher_key, keys.mac_key)
    IN  /\ onion_route # <<>>
        /\ onion_packet.layers # <<>>
        /\ peel_try' = [node |-> node, my_node_id |-> my_node_id,
                        sender_public_key |-> sender_public_key,
                        after |-> Len(peeled),
                        next_hop |-> IF routing_json.len # RoutingJsonLen
                                     THEN "ValueError"
                                     ELSE routing_json.content.next_hop]
        /\ UNCHANGED <<onion_route, onion_payload, onion_packet, onion_holder, peeled,
                       extracted>>
        /\ UNCHANGED <<nodeVars, marketVars, routerVars, signalVars, wireVars,
                   threadVars, last>>

\* the routes of A's packets that have at least one relay
PeelRoutes == {route \in OnionRoutes : Len(route) >= 3 /\ route[1] = "A"}

\* the packet travels along its route while the nodes in range try to peel it
NextPeel ==
    \/ \E route \in PeelRoutes, iv \in IVs : create_onion(route, "sealed-1", iv)
    \/ \E n \in Ids : peel_layer(n)
    \/ \E n, id \in Ids, key \in PublicKeys : peel_layer_overheard(n, id, key)

SpecPeel == InitCrypto /\ [][NextPeel]_vars

\* =========================================================== wire format
\* well-formed Messages: texts and ACKs as the constructors build them, then
\* routed (onion layers, hops, cost), sealed and signed
WireOnionLayers ==
    {<<>>, <<[next_hop |-> "B", layer_encrypted |-> FALSE, layer_data |-> "None"]>>}
WireHops == {<<>>, <<"A">>, <<"A", "B">>}
WireSignatures == {"None", "3045"}

WireMessages ==
    {[[[[[m EXCEPT !.onion_layers = o] EXCEPT !.hops_taken = h]
            EXCEPT !.energy_cost = c] EXCEPT !.is_encrypted = e]
            EXCEPT !.signature = g] :
        m \in {create_text_message(1, "A", "C", l, p) :
                    l \in ContentLens, p \in SendPriorities}
                \cup {create_ack(AckId("C", 1), 1, "C", "A")},
        o \in WireOnionLayers, h \in WireHops, c \in {0, 10501 * Cent},
        e \in BOOLEAN, g \in WireSignatures}

\* Message.from_wire_format(msg.to_wire_format())
wire_round_trip(msg) ==
    /\ decoded' = [msg |-> msg, result |-> from_wire_format(to_wire_format(msg))]
    /\ UNCHANGED <<nodeVars, marketVars, routerVars, signalVars, onionVars,
                   threadVars, last>>

NextWire == \E msg \in WireMessages : wire_round_trip(msg)

SpecWire == InitCrypto /\ [][NextWire]_vars

\* =============================================================== threads
\* The app of node B under its radio callbacks and its update thread.  No
\* lock is taken anywhere in _handle_radio_message, receive_message,
\* _update_loop or process_relay_queue, so a thread can be preempted between
\* any two of the statements below.
ThreadNode == "B"

\* what the peers hand to the radios of B: two texts of A for X, as sent
SentByA(id) ==
    LET msg == create_text_message(id, "A", Ext, CHOOSE l \in ContentLens : TRUE,
                                   "NORMAL")
    IN  add_hop([msg EXCEPT !.energy_cost = calculate_energy_cost(msg)], "A")
ThreadFrames == {SentByA(1), SentByA(2)}

ThreadStep(t, from, to) ==
    /\ pc[t] = from
    /\ pc' = [pc EXCEPT ![t] = to]

\* _handle_radio_message: msg = Message.from_wire_format(data)
radio_callback(t, m) ==
    /\ ThreadStep(t, "idle", "check_seen")
    /\ thread_msg' = [thread_msg EXCEPT ![t] = from_wire_format(to_wire_format(m))]
    /\ UNCHANGED <<nodeVars, queue_copy>>
    /\ UNCHANGED <<marketVars, routerVars, signalVars, onionVars, wireVars, last>>

\* receive_message: if msg.header.message_id in self.seen_message_ids
rm_check_seen(t) ==
    LET n == ThreadNode
    IN  /\ pc[t] = "check_seen"
        /\ IF thread_msg[t].message_id \in seen_message_ids[n]
           THEN /\ Dropped < MaxDropped
                /\ stats' = [stats EXCEPT ![n].messages_dropped = @ + 1]
                /\ pc' = [pc EXCEPT ![t] = "idle"]
           ELSE /\ pc' = [pc EXCEPT ![t] = "add_seen"]
                /\ UNCHANGED stats
        /\ UNCHANGED <<config, network_graph, outgoing_queue, relay_queue,
                       received_messages, seen_message_ids, energy_account,
                       message_history, frames, nextId>>
        /\ UNCHANGED <<thread_msg, queue_copy>>
        /\ UNCHANGED <<marketVars, routerVars, signalVars, onionVars, wireVars, last>>

\* receive_message: self.seen_message_ids.add(...), then the recipient,
\* enable_relay and should_relay tests, which read the message only
rm_add_seen(t) ==
    LET n == ThreadNode
        msg == thread_msg[t]
    IN  /\ pc[t] = "add_seen"
        /\ seen_message_ids' = [seen_message_ids EXCEPT ![n] = @ \cup {msg.message_id}]
        /\ IF msg.recipient_id = n
           THEN /\ received_messages' = [received_messages EXCEPT ![n] = Append(@, msg)]
                /\ stats' = [stats EXCEPT ![n].messages_received = @ + 1]
                /\ outgoing_queue' = [outgoing_queue EXCEPT
                       ![n] = Append(@, create_ack(AckId(n, msg.message_id),
                                                  msg.message_id, n, msg.sender_id))]
                /\ pc' = [pc EXCEPT ![t] = "idle"]
           ELSE IF ~config[n].enable_relay \/ ~should_relay(msg, n)
           THEN /\ Dropped < MaxDropped
                /\ stats' = [stats EXCEPT ![n].messages_dropped = @ + 1]
                /\ pc' = [pc EXCEPT ![t] = "idle"]
                /\ UNCHANGED <<received_messages, outgoing_queue>>
           ELSE /\ pc' = [pc EXCEPT ![t] = "check_capacity"]
                /\ UNCHANGED <<received_messages, outgoing_queue, stats>>
        /\ UNCHANGED <<config, network_graph, relay_queue, energy_account,
                       message_history, frames, nextId>>
        /\ UNCHANGED <<thread_msg, queue_copy>>
        /\ UNCHANGED <<marketVars, routerVars, signalVars, onionVars, wireVars, last>>

\* receive_message: if len(self.relay_queue) >= self.config.max_relay_queue
rm_check_capacity(t) ==
    LET n == ThreadNode
    IN  /\ pc[t] = "check_capacity"
        /\ IF relay_queue_full(n)
           THEN /\ Dropped < MaxDropped
                /\ stats' = [stats EXCEPT ![n].relay_queue_full = @ + 1,
                                          ![n].messages_dropped = @ + 1]
                /\ pc' = [pc EXCEPT ![t] = "idle"]
           ELSE /\ pc' = [pc EXCEPT ![t] = "enqueue"]
                /\ UNCHANGED stats
        /\ UNCHANGED <<config, network_graph, outgoing_queue, relay_queue,
                       received_messages, seen_message_ids, energy_account,
                       message_history, frames, nextId>>
        /\ UNCHANGED <<thread_msg, queue_copy>>
        /\ UNCHANGED <<marketVars, routerVars, signalVars, onionVars, wireVars, last>>

\* receive_message: msg.add_hop(...); self.relay_queue.append(msg)
rm_enqueue(t) ==
    LET n == ThreadNode
        hopped == add_hop(thread_msg[t], n)
    IN  /\ ThreadStep(t, "enqueue", "credit")
        /\ thread_msg' = [thread_msg EXCEPT ![t] = hopped]
        /\ relay_queue' = [relay_queue EXCEPT ![n] = Append(@, hopped)]
        /\ UNCHANGED <<config, network_graph, outgoing_queue, received_messages,
                       stats, seen_message_ids, energy_account, message_history,
                       frames, nextId>>
        /\ UNCHANGED queue_copy
        /\ UNCHANGED <<marketVars, routerVars, signalVars, onionVars, wireVars, last>>

\* receive_message: the relay credit and stats["messages_relayed"] += 1
rm_credit(t) ==
    LET n == ThreadNode
        msg == thread_msg[t]
    IN  /\ ThreadStep(t, "credit", "idle")
        /\ energy_account' = [energy_account EXCEPT
               ![n] = credit(@, get_relay_reward(msg), "relay", msg.sender_id,
                             msg.message_id)]
        /\ stats' = [stats EXCEPT ![n].messages_relayed = @ + 1]
        /\ UNCHANGED <<config, network_graph, outgoing_queue, relay_queue,
                       received_messages, seen_message_ids, message_history,
                       frames, nextId>>
        /\ UNCHANGED <<thread_msg, queue_copy>>
        /\ UNCHANGED <<marketVars, routerVars, signalVars, onionVars, wireVars, last>>

\* _update_loop: _update_neighbors gives the node its view, then
\* process_relay_queue copies the queue it is going to walk through
update_copy_queue(g) ==
    LET n == ThreadNode
    IN  /\ ThreadStep(UpdateThread, "idle", "walk")
        /\ relay_queue[n] # <<>>
        /\ network_graph' = [network_graph EXCEPT ![n] = g]
        /\ queue_copy' = relay_queue[n]
        /\ UNCHANGED <<config, outgoing_queue, relay_queue, received_messages,
                       stats, seen_message_ids, energy_account, message_history,
                       frames, nextId>>
        /\ UNCHANGED thread_msg
        /\ UNCHANGED <<marketVars, routerVars, signalVars, onionVars, wireVars, last>>

\* process_relay_queue: the loop over the copy; a routable message is handed
\* to the caller, an expired one is dropped
update_walk_queue ==
    LET n == ThreadNode
        gone(m) == \E i \in DOMAIN queue_copy :
                        queue_copy[i] = m /\ (Routable(n, m) \/ is_expired(m))
        messages_to_forward == SelectSeq(queue_copy, LAMBDA m : Routable(n, m))
        expired == SelectSeq(queue_copy, LAMBDA m : ~Routable(n, m) /\ is_expired(m))
    IN  /\ ThreadStep(UpdateThread, "walk", "idle")
        /\ relay_queue' = [relay_queue EXCEPT ![n] = SelectSeq(@, LAMBDA m : ~gone(m))]
        /\ stats' = [stats EXCEPT ![n].messages_dropped = @ + Len(expired)]
        /\ frames' = frames \cup {messages_to_forward[i] :
                                     i \in DOMAIN messages_to_forward}
        /\ queue_copy' = <<>>
        /\ UNCHANGED <<config, network_graph, outgoing_queue, received_messages,
                       seen_message_ids, energy_account, message_history, nextId>>
        /\ UNCHANGED thread_msg
        /\ UNCHANGED <<marketVars, routerVars, signalVars, onionVars, wireVars, last>>

NextThreads ==
    \/ \E t \in RadioThreads, m \in ThreadFrames : radio_callback(t, m)
    \/ \E t \in RadioThreads : rm_check_seen(t)
    \/ \E t \in RadioThreads : rm_add_seen(t)
    \/ \E t \in RadioThreads : rm_check_capacity(t)
    \/ \E t \in RadioThreads : rm_enqueue(t)
    \/ \E t \in RadioThreads : rm_credit(t)
    \/ \E g \in Views : update_copy_queue(g)
    \/ update_walk_queue

SpecThreads == InitCrypto /\ [][NextThreads]_vars

\* ======================================================= observed neighbours
\* views installed with update_network_graph after the neighbours were
\* observed: none, the whole line, and one without the link from the node
ViewWithoutOwnLinks == (RouterNode :> {}) @@ ("B" :> {RouterNode, "C"})
ObservedViews == {<<>>, LineView, ViewWithoutOwnLinks}

\* MeshNode.update_neighbors of the node RouterNode is update_neighbors of its
\* Router, which holds the same set
NextNeighbors ==
    \/ \E nbrs \in NeighborSets : update_neighbors(nbrs)
    \/ \E g \in ObservedViews : update_network_graph(RouterNode, g)
    \/ \E n \in Nodes, r \in Ids, l \in ContentLens, p \in SendPriorities :
            send_message(n, r, l, p)
    \/ \E n \in Nodes, m \in frames : _handle_radio_message(n, m)
    \/ \E n \in Nodes : process_relay_queue(n)

SpecNeighbors == InitCrypto /\ [][NextNeighbors]_vars

\* ================================================================ app tick
\* what the radios of node n report as its neighbours
get_neighbors(n) == Topology[n]

\* MeshPhoneApp._update_neighbors: the view it installs holds the node's own
\* neighbours and, for each of them, the link back
OneHopGraph(n, nbrs) == (n :> nbrs) @@ [x \in nbrs |-> {n}]

\* one round of MeshPhoneApp._update_loop at node n: _update_neighbors, then
\* process_relay_queue, whose returned list the loop does not use
_update_loop(n) ==
    LET nbrs == get_neighbors(n)
        graph == OneHopGraph(n, nbrs)
        route(m) == find_route(n, m.recipient_id, graph)
        routable(m) == route(m) # None /\ Len(route(m)) > 1
        expired == SelectSeq(relay_queue[n], LAMBDA m : ~routable(m) /\ is_expired(m))
    IN  /\ relay_queue[n] # <<>>
        /\ IF n = RouterNode
           THEN /\ neighbors' = nbrs
                /\ routing_table' = [d \in DOMAIN routing_table |->
                        IF routing_table[d].next_hop \notin nbrs
                        THEN [routing_table[d] EXCEPT !.is_active = FALSE]
                        ELSE routing_table[d]]
           ELSE UNCHANGED <<neighbors, routing_table>>
        /\ network_graph' = [network_graph EXCEPT ![n] = graph]
        /\ relay_queue' = [relay_queue EXCEPT
                ![n] = SelectSeq(@, LAMBDA m : ~routable(m) /\ ~is_expired(m))]
        /\ stats' = [stats EXCEPT ![n].messages_dropped = @ + Len(expired)]
        /\ last' = [op |-> "_update_loop", node |-> n, msg |-> NoMsg, ret |-> "none"]
        /\ UNCHANGED <<config, outgoing_queue, received_messages, seen_message_ids,
                       energy_account, message_history, frames, nextId>>
        /\ UNCHANGED <<sequence_number, found_route>>
        /\ UNCHANGED <<marketVars, signalVars, onionVars, wireVars, threadVars>>

\* the nodes send and receive as before; the only caller of
\* process_relay_queue is the loop of the app
NextTick ==
    \/ \E n \in Nodes, g \in Views : update_network_graph(n, g)
    \/ \E n \in Nodes, r \in Ids, l \in ContentLens, p \in SendPriorities :
            send_message(n, r, l, p)
    \/ \E m \in RelayedFrames : peer_forward(m)
    \/ \E n \in Nodes, m \in frames : _handle_radio_message(n, m)
    \/ \E n \in Nodes : _update_loop(n)

SpecTick == InitCrypto /\ [][NextTick]_vars

\* the loop of every app keeps running and the radio keeps delivering frames
FairTick ==
    /\ SpecTick
    /\ \A n \in Nodes : WF_vars(_update_loop(n))
    /\ \A n \in Nodes : WF_vars(\E m \in frames : _handle_radio_message(n, m))

\* ================================================================ app send
\* the apps that send, the one contact each of them writes to, and the
\* SignalSession the app keeps for that contact in signal_sessions
AppNodes == {"A", "C"}
AppRecipient(n) == IF n = "A" THEN "B" ELSE Ext
AppSession(n) == IF n = "A" THEN "Alice" ELSE "Bob"

\* MeshPhoneApp.send_message(recipient_id, content) at the app of node n,
\* started, in free mode and without a carrier radio: the session is fetched
\* or created, the content is encrypted, then MeshNode.send_message charges
\* and plans the route, then _transmit_message hands the message to a radio
\* that has the recipient as a neighbour
app_send_message(n, content_len, priority, iv) ==
    LET recipient_id == AppRecipient(n)
        p == AppSession(n)
        created == ratchet_state[p] = NoRatchetState
        dh_keypair == KeyId(p, key_count[p] + 1)
        recipient_key == KeyId(Peer(p), 0)
        first == _kdf_rk(InitSalt, perform_dh(dh_keypair, recipient_key))
        session == IF created
                   THEN RatchetState(dh_keypair, recipient_key, first.root_key,
                                     first.chain_key, ZeroKey)
                   ELSE ratchet_state[p]
        k == _kdf_ck(session.chain_key_send)
        sealed == GcmEncrypt(k.cipher_key, iv, "hello")
        msg == create_text_message(nextId, n, recipient_id, content_len, priority)
        energy_cost == calculate_energy_cost(msg)
        route == find_route(n, recipient_id, network_graph[n])
        sent == add_hop([msg EXCEPT !.energy_cost = energy_cost], n)
        success == recipient_id \in get_neighbors(n)
    IN  /\ Entered < MaxMsgs
        /\ Len(encrypted[p]) < (IF p = "Alice" THEN MaxEncrypts ELSE MaxReplies)
        /\ key_count' = IF created THEN [key_count EXCEPT ![p] = @ + 1] ELSE key_count
        /\ ratchet_state' = [ratchet_state EXCEPT ![p] =
                [session EXCEPT !.chain_key_send = k.chain_key,
                                !.message_number_send = @ + 1]]
        /\ encrypted' = [encrypted EXCEPT ![p] = Append(@,
                [ciphertext |-> sealed.ciphertext,
                 tag |-> sealed.tag,
                 iv |-> iv,
                 dh_public |-> session.dh_keypair,
                 message_number |-> session.message_number_send,
                 previous_chain_length |-> session.previous_chain_length])]
        /\ IF ~can_afford(energy_account[n], energy_cost)
           THEN /\ last' = [op |-> "app_send_message", node |-> n, msg |-> msg,
                            ret |-> "insufficient_energy"]
                /\ UNCHANGED <<energy_account, outgoing_queue, stats, frames, nextId,
                               message_history>>
           ELSE IF route = None
           THEN /\ last' = [op |-> "app_send_message", node |-> n, msg |-> msg,
                            ret |-> "no_route"]
                /\ UNCHANGED <<energy_account, outgoing_queue, stats, frames, nextId,
                               message_history>>
           ELSE /\ energy_account' = [energy_account EXCEPT
                        ![n] = debit(@, energy_cost, "send", msg.message_id)]
                /\ outgoing_queue' = [outgoing_queue EXCEPT ![n] = Append(@, sent)]
                /\ stats' = [stats EXCEPT ![n].messages_sent = @ + 1]
                /\ nextId' = nextId + 1
                /\ frames' = IF success THEN frames \cup {sent} ELSE frames
                /\ message_history' =
                      IF success
                      THEN [message_history EXCEPT ![n] = Append(@, MessageBubble(n, msg))]
                      ELSE message_history
                /\ last' = [op |-> "app_send_message", node |-> n, msg |-> msg,
                            ret |-> IF success THEN "True" ELSE "False"]
        /\ UNCHANGED <<config, network_graph, relay_queue, received_messages,
                       seen_message_ids>>
        /\ UNCHANGED <<skipped_message_keys, decrypt_log>>
        /\ UNCHANGED <<marketVars, routerVars, onionVars, wireVars, threadVars>>

NextApp ==
    \/ \E n \in Nodes, g \in Views : update_network_graph(n, g)
    \/ \E n \in AppNodes, l \in ContentLens, p \in SendPriorities, iv \in IVs :
            app_send_message(n, l, p, iv)
    \/ \E n \in Nodes, m \in frames : _handle_radio_message(n, m)

SpecApp == InitCrypto /\ [][NextApp]_vars

\* ========================================================== EnergyMarket
base_send_cost == 100 * Scale
spam_penalty == 50 * Scale

\* inputs of the market operations
AccountIds == {"A", "B"}
InitialBalances == {40 * Scale, 2016 * Scale}
MessageCosts == {176 * Scale}
TargetBalances == {1000 * Scale}

\* base_send_cost * (1 + kb * 0.1) * [0.5, 1.0, 1.5, 2.0][priority]
\*   * (1 + num_hops * 0.2), rounded to 2 decimals; message_size_kb is a whole
\* number here, so the product is a whole number of cents
calculate_send_cost(message_size_kb, priority, num_hops) ==
    Cent * RoundDiv((base_send_cost \div Scale) * (10 + message_size_kb)
                      * (priority + 1) * (10 + 2 * num_hops), 2)

\* round(message_cost * 0.1 * (1.5 if plugged in), 2)
calculate_relay_reward(message_cost, is_plugged_in) ==
    Cent * RoundDiv((message_cost \div Cent) * (IF is_plugged_in THEN 15 ELSE 10), 100)

KnownAccount(node_id) == node_id \in DOMAIN accounts

MarketCall(op, node_id, ret) == [op |-> op, node |-> node_id, msg |-> NoMsg, ret |-> ret]

\* EnergyMarket.create_account, for a node that has no account yet
create_account(node_id, initial, is_plugged_in) ==
    /\ ~KnownAccount(node_id)
    /\ accounts' = (node_id :> NewAccount(node_id, initial, is_plugged_in,
                                          IF is_plugged_in THEN 15 ELSE 10)) @@ accounts
    /\ initial_balance' = (node_id :> initial) @@ initial_balance
    /\ total_energy_in_system' = total_energy_in_system + initial
    /\ last' = MarketCall("create_account", node_id, "none")
    /\ UNCHANGED <<nodeVars, routerVars, signalVars, onionVars, wireVars,
                   threadVars>>

\* EnergyMarket.process_message_send; its return value goes to last'.ret
process_message_send(sender_id, message_id, message_size_kb, priority, num_hops) ==
    LET cost == calculate_send_cost(message_size_kb, priority, num_hops)
    IN  /\ IF ~KnownAccount(sender_id)
           THEN /\ last' = MarketCall("process_message_send", sender_id, "False")
                /\ UNCHANGED accounts
           ELSE /\ can_afford(accounts[sender_id], cost)
                        => Len(accounts[sender_id].transactions) < MaxTx
                /\ accounts' = [accounts EXCEPT
                        ![sender_id] = debit(@, cost, "send", message_id)]
                /\ last' = MarketCall("process_message_send", sender_id,
                              IF can_afford(accounts[sender_id], cost)
                              THEN "True" ELSE "False")
        /\ UNCHANGED <<initial_balance, total_energy_in_system>>
        /\ UNCHANGED <<nodeVars, routerVars, signalVars, onionVars, wireVars,
                   threadVars>>

\* EnergyMarket.process_relay
process_relay(relay_node_id, message_id, message_cost) ==
    /\ IF ~KnownAccount(relay_node_id)
       THEN UNCHANGED accounts
       ELSE LET relay_node == accounts[relay_node_id]
                reward == calculate_relay_reward(message_cost, relay_node.is_plugged_in)
            IN  /\ Len(relay_node.transactions) < MaxTx
                /\ accounts' = [accounts EXCEPT
                        ![relay_node_id] = credit(@, reward, "relay", "network",
                                                  message_id)]
    /\ last' = MarketCall("process_relay", relay_node_id, "none")
    /\ UNCHANGED <<initial_balance, total_energy_in_system>>
    /\ UNCHANGED <<nodeVars, routerVars, signalVars, onionVars, wireVars,
                   threadVars>>

\* EnergyMarket.apply_spam_penalty; last'.ret tells whether the debit was taken
apply_spam_penalty(node_id) ==
    /\ IF ~KnownAccount(node_id)
       THEN /\ last' = MarketCall("apply_spam_penalty", node_id, "none")
            /\ UNCHANGED accounts
       ELSE /\ can_afford(accounts[node_id], spam_penalty)
                    => Len(accounts[node_id].transactions) < MaxTx
            /\ accounts' = [accounts EXCEPT
                    ![node_id] = debit(@, spam_penalty, "penalty", 0)]
            /\ last' = MarketCall("apply_spam_penalty", node_id,
                          IF can_afford(accounts[node_id], spam_penalty)
                          THEN "True" ELSE "False")
    /\ UNCHANGED <<initial_balance, total_energy_in_system>>
    /\ UNCHANGED <<nodeVars, routerVars, signalVars, onionVars, wireVars,
                   threadVars>>

\* a variant of the loop body that taxes every balance above the target
rebalance_account_taxes_above_target(account, target_balance) ==
    IF 2 * account.balance < target_balance
    THEN credit(account, (target_balance - 2 * account.balance) \div 20,
                "rebalance", "network", 0)
    ELSE IF account.balance > target_balance
    THEN debit(account, (account.balance - target_balance) \div 20, "rebalance", 0)
    ELSE account

\* the body of the loop of rebalance_energy, for one account; the amounts
\* (target * 0.5 - balance) * 0.1 and (balance - target * 2.0) * 0.05 are
\* (target - 2 * balance) / 20 and (balance - 2 * target) / 20
rebalance_account(account, target_balance) ==
    IF 2 * account.balance < target_balance
    THEN credit(account, (target_balance - 2 * account.balance) \div 20,
                "rebalance", "network", 0)
    ELSE IF account.balance > 2 * target_balance
    THEN debit(account, (account.balance - 2 * target_balance) \div 20, "rebalance", 0)
    ELSE account

\* the amount rebalance_energy moves on the account is a whole number of
\* fixed-point units
ExactRebalance(account, target_balance) ==
    \/ 2 * account.balance < target_balance
          /\ (target_balance - 2 * account.balance) % 20 = 0
    \/ account.balance > 2 * target_balance
          /\ (account.balance - 2 * target_balance) % 20 = 0
    \/ /\ 2 * account.balance >= target_balance
       /\ account.balance <= 2 * target_balance

\* EnergyMarket.rebalance_energy
rebalance_energy(target_balance) ==
    /\ accounts # <<>>
    /\ \A id \in DOMAIN accounts :
          /\ rebalance_account(accounts[id], target_balance) # accounts[id]
                => Len(accounts[id].transactions) < MaxTx
          /\ ExactRebalance(accounts[id], target_balance)
    /\ accounts' = [id \in DOMAIN accounts |->
                        rebalance_account(accounts[id], target_balance)]
    /\ last' = MarketCall("rebalance_energy", "", "none")
    /\ UNCHANGED <<initial_balance, total_energy_in_system>>
    /\ UNCHANGED <<nodeVars, routerVars, signalVars, onionVars, wireVars,
                   threadVars>>

NextMarket ==
    \/ \E id \in AccountIds, b \in InitialBalances, p \in BOOLEAN :
            create_account(id, b, p)
    \/ \E id \in AccountIds : process_message_send(id, 1, 1, 1, 3)
    \/ \E id \in AccountIds, c \in MessageCosts : process_relay(id, 1, c)
    \/ \E id \in AccountIds : apply_spam_penalty(id)
    \/ \E t \in TargetBalances : rebalance_energy(t)

InitEnergy == Init /\ config["C"].enable_relay

SpecEnergy == InitEnergy /\ [][NextMarket]_vars

\* ================================================================ claims
SeqRange(q) == {q[i] : i \in 1..Len(q)}

\* every message a node holds
HeldBy(n) == SeqRange(outgoing_queue[n]) \cup SeqRange(relay_queue[n])
                \cup SeqRange(received_messages[n])

\* every message observed anywhere: held by a node or on a link
Observed == frames \cup UNION {HeldBy(n) : n \in Nodes}

NoDuplicateId(q) ==
    \A i, j \in 1..Len(q) : q[i].message_id = q[j].message_id => i = j

\* the identities reachable from n over the edges of a view
RECURSIVE ReachFrom(_, _)
ReachFrom(graph, S) ==
    LET T == S \cup UNION {graph[x] : x \in S \cap DOMAIN graph}
    IN  IF T = S THEN S ELSE ReachFrom(graph, T)

\* C1: each message id addressed to a node is delivered to the application at
\* most once: neither received_messages nor message_history of a node holds
\* two entries with the same message_id.
C1_DeliveredAtMostOnce ==
    \A n \in Nodes : /\ NoDuplicateId(received_messages[n])
                     /\ NoDuplicateId(message_history[n])

\* C2: receiving an ACK addressed to this node never makes the node create
\* or queue another ACK: no queued ACK acknowledges a received ACK.
C2_AckIsNotAcked ==
    \A n \in Nodes : \A a \in SeqRange(outgoing_queue[n]) :
        a.message_type = "ack" =>
            ~ \E r \in SeqRange(received_messages[n]) :
                    r.message_type = "ack" /\ r.message_id = a.ack_for

\* C3: the ACK a recipient synthesizes for a delivered text message is
\* eventually emitted and received by the original sender; it does not stay
\* in the recipient's outgoing queue forever.
C3_AckEventuallyReceived ==
    \A n \in Nodes : \A s \in Nodes \ {n} : \A id \in 1..MaxMsgs :
        (create_ack(AckId(n, id), id, n, s) \in SeqRange(outgoing_queue[n]))
            ~> (/\ AckId(n, id) \in seen_message_ids[s]
                /\ create_ack(AckId(n, id), id, n, s) \notin SeqRange(outgoing_queue[n]))

\* C4: after any sequence of debit, credit, spam-penalty and rebalance
\* operations on an EnergyAccount, rejected debits included,
\* balance = initial balance + total_earned - total_spent.
C4_BalanceIsInitialPlusEarnedMinusSpent ==
    /\ \A id \in DOMAIN accounts :
          accounts[id].balance =
              initial_balance[id] + accounts[id].total_earned - accounts[id].total_spent
    /\ \A n \in Nodes :
          energy_account[n].balance =
              config[n].initial_energy + energy_account[n].total_earned
                  - energy_account[n].total_spent

Reasons(acct) == {acct.transactions[i].reason : i \in 1..Len(acct.transactions)}

\* an account that took a relay credit, a rebalance bonus and a spam penalty,
\* and then had a send rejected
C4_Witness ==
    \E id \in DOMAIN accounts :
        /\ Reasons(accounts[id]) = {"relay", "rebalance", "penalty"}
        /\ last.op = "process_message_send"
        /\ last.node = id
        /\ last.ret = "False"

\* the replay of C5: from the initial balance, add the amount of every
\* transaction whose to_node is the account and subtract every one whose
\* from_node is the account
RECURSIVE ReplayLog(_, _, _)
ReplayLog(log, node_id, acc) ==
    IF log = <<>> THEN acc
    ELSE LET tx == Head(log)
             added == IF tx.to_node = node_id
                      THEN [acc EXCEPT !.balance = @ + tx.amount,
                                       !.total_earned = @ + tx.amount]
                      ELSE acc
             subtracted == IF tx.from_node = node_id
                           THEN [added EXCEPT !.balance = @ - tx.amount,
                                              !.total_spent = @ + tx.amount]
                           ELSE added
         IN  ReplayLog(Tail(log), node_id, subtracted)

ReplayMatches(acct, initial) ==
    ReplayLog(acct.transactions, acct.node_id,
              [balance |-> initial, total_earned |-> 0, total_spent |-> 0])
        = [balance |-> acct.balance, total_earned |-> acct.total_earned,
           total_spent |-> acct.total_spent]

StrictlyIncreasingIds(acct) ==
    \A i, j \in 1..Len(acct.transactions) :
        i < j => acct.transactions[i].transaction_id < acct.transactions[j].transaction_id

\* C5: replaying an account's transaction log from the initial balance
\* reproduces the current balance, total_earned and total_spent exactly, and
\* the transaction ids in the log are strictly increasing and unique.
C5_LogReplayReproducesAccount ==
    /\ \A id \in DOMAIN accounts :
          /\ ReplayMatches(accounts[id], initial_balance[id])
          /\ StrictlyIncreasingIds(accounts[id])
    /\ \A n \in Nodes :
          /\ ReplayMatches(energy_account[n], config[n].initial_energy)
          /\ StrictlyIncreasingIds(energy_account[n])

\* a plugged-in account whose log holds a relay credit of 1.5 times the
\* reward and then a spam penalty, after a second spam penalty was rejected
C5_Witness ==
    \E id \in DOMAIN accounts :
        LET acct == accounts[id]
        IN  /\ acct.is_plugged_in
            /\ Len(acct.transactions) >= 2
            /\ acct.transactions[1].reason = "relay"
            /\ 10 * acct.transactions[1].amount
                  = 15 * calculate_relay_reward(176 * Scale, TRUE)
            /\ acct.transactions[2].reason = "penalty"
            /\ last.op = "apply_spam_penalty"
            /\ last.node = id
            /\ last.ret = "False"

\* C11: a message that arrives at a non-recipient node with header.ttl = 1 is
\* dropped as expired: it is not enqueued for relay, earns no relay reward,
\* and no message is ever forwarded with ttl <= 0.
C11_TtlOneArrivalIsDropped ==
    [][/\ (/\ last'.op = "receive_message"
           /\ last'.msg.ttl = 1
           /\ last'.msg.recipient_id # last'.node)
          => (/\ relay_queue' = relay_queue
              /\ energy_account' = energy_account)
       /\ \A m \in frames' \ frames : m.ttl > 0]_vars

\* what the account of the node of the last call gained in this step
Gained == energy_account'[last'.node].balance - energy_account[last'.node].balance

\* C12: every non-plugged-in relay on a delivery path is credited exactly 10%
\* of the cost the sender was charged for the message (the recorded
\* energy_cost, to the cent), whatever its position on the path.
C12_RelayCreditIsTenthOfSendCost ==
    [][(/\ last'.op = "receive_message"
        /\ last'.ret = "relayed"
        /\ last'.msg.message_type = "text"
        /\ ~config[last'.node].is_plugged_in)
       => Gained = Cent * RoundDiv(last'.msg.energy_cost \div Cent, 10)]_vars

\* C13: a MeshNode configured with is_plugged_in = true is credited 1.5 times
\* the relay reward a non-plugged-in node is credited for relaying the same
\* message.
C13_PluggedInRelayCreditIsOneAndAHalf ==
    [][(/\ last'.op = "receive_message"
        /\ last'.ret = "relayed"
        /\ config[last'.node].is_plugged_in)
       => 10 * Gained = 15 * get_relay_reward(add_hop(last'.msg, last'.node))]_vars

\* the route send_message plans for the message of the last call
PlannedRoute == find_route(last'.node, last'.msg.recipient_id, network_graph[last'.node])

\* C14: the cost send_message debits includes the hop factor 1 + 0.2 * h,
\* where h is the expected hop count after route planning (h = 1 for a
\* direct neighbour).
C14_SendCostIncludesHopFactor ==
    [][(/\ last'.op = "send_message"
        /\ last'.ret = "ok"
        /\ last'.msg.recipient_id # last'.node)
       => -Gained = calculate_energy_cost(
                        [last'.msg EXCEPT !.ttl = DefaultTTL - (Len(PlannedRoute) - 1)])]_vars

\* C15: send_message with recipient equal to the node's own id delivers the
\* message locally at once, debits nothing from the energy account, and puts
\* nothing on a link or in the outgoing queue.
C15_SelfSendIsLocalAndFree ==
    [][(/\ last'.op = "send_message"
        /\ last'.msg.recipient_id = last'.node)
       => (/\ \E m \in SeqRange(received_messages'[last'.node]) :
                  m.message_id = last'.msg.message_id
           /\ UNCHANGED <<energy_account, outgoing_queue, frames>>)]_vars

\* C16: when the sender's balance is exactly equal to the message cost and a
\* route exists, send_message succeeds and the balance afterwards is exactly 0.
C16_ExactBalanceSendSucceeds ==
    [][(/\ last'.op = "send_message"
        /\ energy_account[last'.node].balance = calculate_energy_cost(last'.msg)
        /\ PlannedRoute # None)
       => (/\ last'.ret = "ok"
           /\ energy_account'[last'.node].balance = 0
           /\ last'.msg.message_id \in
                  {m.message_id : m \in SeqRange(outgoing_queue'[last'.node])})]_vars

\* B, which held exactly the cost, has sent a message to another node
C16_Witness ==
    /\ last.op = "send_message"
    /\ last.ret = "ok"
    /\ last.msg.recipient_id # last.node
    /\ config[last.node].initial_energy = calculate_energy_cost(last.msg)
    /\ energy_account[last.node].balance = 0
    /\ energy_account[last.node].total_spent = calculate_energy_cost(last.msg)

\* the number of edges of a shortest path from the set S to d over the
\* edges of a view, found level by level; -1 when there is none
RECURSIVE Hops(_, _, _, _)
Hops(graph, S, d, k) ==
    IF d \in S THEN k
    ELSE LET T == S \cup UNION {graph[x] : x \in S \cap DOMAIN graph}
         IN  IF T = S THEN -1 ELSE Hops(graph, T, d, k + 1)

FollowsEdges(graph, path) ==
    \A i \in 1..(Len(path) - 1) :
        path[i] \in DOMAIN graph /\ path[i + 1] \in graph[path[i]]

\* C17: for every view and destination, when find_route returns a path it
\* starts at this node, ends at the destination, follows only edges of the
\* view, and no shorter path from this node to the destination exists.
C17_RouteIsShortestPath ==
    (found_route # NoRoute /\ found_route.path # None) =>
        LET path == found_route.path
            view == network_graph[found_route.node]
        IN  /\ path[1] = found_route.node
            /\ path[Len(path)] = found_route.destination
            /\ FollowsEdges(view, path)
            /\ Len(path) - 1 = Hops(view, {found_route.node}, found_route.destination, 0)

\* a two-hop route was returned while the view also holds a longer way to
\* the destination, over another neighbour of the node
C17_Witness ==
    /\ found_route # NoRoute
    /\ found_route.path # None
    /\ Len(found_route.path) = 3
    /\ \E x \in network_graph[found_route.node][found_route.node] :
          /\ x # found_route.path[2]
          /\ x \in DOMAIN network_graph[found_route.node]
          /\ found_route.destination \notin network_graph[found_route.node][x]
          /\ found_route.destination \in ReachFrom(network_graph[found_route.node], {x})

\* C18: find_route returns [self] when destination = self, and for
\* destination # self it returns none if and only if the destination is
\* unreachable from this node over the view's edges.
C18_NoneIffUnreachable ==
    found_route # NoRoute =>
        IF found_route.destination = found_route.node
        THEN found_route.path = <<found_route.node>>
        ELSE (found_route.path = None) <=>
                 (found_route.destination \notin
                      ReachFrom(network_graph[found_route.node], {found_route.node}))

\* C19: in every state of a Router reached by update_neighbors, cache_route and
\* invalidate_route in any order, every routing-table entry whose next hop is
\* not in the current neighbour set is inactive.
C19_StaleEntriesAreInactive ==
    \A d \in DOMAIN routing_table :
        routing_table[d].next_hop \notin neighbors => ~routing_table[d].is_active

\* C20: a relay queue never holds more than max_relay_queue messages; a message
\* that would be relayed (unseen, for another node, relaying enabled,
\* should_relay true) and arrives while the queue is at capacity is dropped:
\* relay_queue_full and messages_dropped go up by one, the queue and the
\* energy account are left as they were, and receive_message returns False.
RelayQueueWithinCapacity ==
    \A n \in Nodes : Len(relay_queue[n]) <= config[n].max_relay_queue

C20_RelayQueueBounded ==
    [][/\ RelayQueueWithinCapacity
       /\ RelayQueueWithinCapacity'
       /\ (/\ last'.op = "receive_message"
           /\ last'.msg.message_id \notin seen_message_ids[last'.node]
           /\ last'.msg.recipient_id # last'.node
           /\ config[last'.node].enable_relay
           /\ should_relay(last'.msg, last'.node)
           /\ Len(relay_queue[last'.node]) = config[last'.node].max_relay_queue)
          => (/\ last'.ret = "queue_full"
              /\ stats'[last'.node].relay_queue_full
                    = stats[last'.node].relay_queue_full + 1
              /\ stats'[last'.node].messages_dropped
                    = stats[last'.node].messages_dropped + 1
              /\ relay_queue' = relay_queue
              /\ energy_account' = energy_account)]_vars

\* a node whose relay queue is full has just dropped a message it would
\* otherwise have relayed
C20_Witness ==
    /\ last.op = "receive_message"
    /\ last.ret = "queue_full"
    /\ Len(relay_queue[last.node]) = config[last.node].max_relay_queue
    /\ stats[last.node].relay_queue_full = 1
    /\ should_relay(last.msg, last.node)

\* C21: a relay-queue entry is removed after a bounded wait even if its TTL is
\* still positive: no entry with positive TTL and no route stays in a relay
\* queue forever.
RelayedIds == (1..MaxMsgs) \cup {m.message_id : m \in RelayedFrames}

WaitsWithoutRoute(n, id) ==
    \E m \in SeqRange(relay_queue[n]) :
        m.message_id = id /\ m.ttl > 0 /\ ~Routable(n, m)

C21_AgedRelayEntryIsDropped ==
    \A n \in Nodes : \A id \in RelayedIds : []<>(~WaitsWithoutRoute(n, id))

\* C22: for two sessions paired by initialize_sender / initialize_receiver,
\* every message decrypts to its plaintext in both directions, replies after a
\* DH ratchet step included, whenever each side is handed the other side's
\* messages in the order they were encrypted.
DeliveredInOrder(p) ==
    /\ Len(decrypt_log[p]) <= Len(encrypted[Peer(p)])
    /\ \A i \in DOMAIN decrypt_log[p] :
            decrypt_log[p][i].message = encrypted[Peer(p)][i]

C22_DecryptInvertsEncrypt ==
    (DeliveredInOrder("Alice") /\ DeliveredInOrder("Bob"))
        => \A p \in Sessions : \A i \in DOMAIN decrypt_log[p] :
                decrypt_log[p][i].result = decrypt_log[p][i].message.ciphertext.pt

\* C23: when the messages of one sending chain reach the receiver in any
\* order, each of them once, every one of them decrypts to its plaintext (the
\* keys of skipped message numbers are kept for the late arrivals).
DeliveredOnceEach(p) ==
    /\ \A i \in DOMAIN decrypt_log[p] :
            \E k \in DOMAIN encrypted[Peer(p)] :
                decrypt_log[p][i].message = encrypted[Peer(p)][k]
    /\ \A i, k \in DOMAIN decrypt_log[p] :
            decrypt_log[p][i].message = decrypt_log[p][k].message => i = k

C23_OutOfOrderMessagesDecrypt ==
    (/\ decrypt_log["Alice"] = <<>>
     /\ DeliveredOnceEach("Bob"))
        => \A i \in DOMAIN decrypt_log["Bob"] :
                decrypt_log["Bob"][i].result = decrypt_log["Bob"][i].message.ciphertext.pt

\* C24: a decrypt call that fails leaves the whole ratchet state of the
\* session as it was: root key, both chain keys, DH key pair, remote public
\* key and both message counters.
C24_FailedDecryptKeepsState ==
    [][\A p \in Sessions :
          (/\ Len(decrypt_log'[p]) = Len(decrypt_log[p]) + 1
           /\ decrypt_log'[p][Len(decrypt_log'[p])].result = "InvalidTag")
             => ratchet_state'[p] = ratchet_state[p]]_vars

\* C25: every encrypt call returns the sending counter and raises it by one,
\* so that the messages of one sending chain (one ratchet key pair) are
\* numbered 0, 1, 2, ... in the order they were encrypted, and each call
\* advances the sending chain key by exactly one step.
C25_EncryptNumbersIncrease ==
    [][\A p \in Sessions :
          Len(encrypted'[p]) = Len(encrypted[p]) + 1
             => LET m == encrypted'[p][Len(encrypted'[p])]
                    earlier == {i \in DOMAIN encrypted[p] :
                                    encrypted[p][i].dh_public = m.dh_public}
                IN  /\ m.message_number = ratchet_state[p].message_number_send
                    /\ m.message_number = Cardinality(earlier)
                    /\ \A i \in earlier : encrypted[p][i].message_number < m.message_number
                    /\ ratchet_state'[p].message_number_send = m.message_number + 1
                    /\ ratchet_state'[p].chain_key_send.hist
                            = ratchet_state[p].chain_key_send.hist
                    /\ ratchet_state'[p].chain_key_send.n
                            = ratchet_state[p].chain_key_send.n + 1
                    /\ m.ciphertext.key = ratchet_state[p].chain_key_send]_vars

\* Alice has encrypted three messages in one chain, numbered 0, 1 and 2, and
\* Bob has encrypted a reply
C25_Witness ==
    /\ Len(encrypted["Alice"]) = 3
    /\ encrypted["Alice"][3].message_number = 2
    /\ encrypted["Alice"][3].dh_public = encrypted["Alice"][1].dh_public
    /\ ratchet_state["Alice"].chain_key_send.n = 3
    /\ Len(encrypted["Bob"]) = 1

\* C26: for every route [sender, relay1, ..., relayk, recipient], create_onion
\* followed by peel_layer at relay1, ..., relayk in route order reveals at
\* relay i the next hop of the route, leaves no layer after relay k, and
\* extract_payload then returns the original final payload.
C26_PeelingFollowsRoute ==
    onion_route # <<>> =>
        LET k == Len(onion_route) - 2
        IN  /\ Len(peeled) <= k
            /\ \A i \in DOMAIN peeled : peeled[i] = onion_route[i + 2]
            /\ Len(onion_packet.layers) = k - Len(peeled)
            /\ onion_holder = onion_route[Len(peeled) + 2]
            /\ onion_packet.final_payload = onion_payload
            /\ extracted.after = k => extracted.result = onion_payload

\* a packet for a route with two relays has been peeled twice and its payload
\* extracted by the recipient
C26_Witness ==
    /\ Len(onion_route) = 4
    /\ Len(peeled) = 2
    /\ onion_holder = onion_route[4]
    /\ extracted.after = 2
    /\ extracted.result = onion_payload

\* C27: from_wire_format(to_wire_format(m)) equals m on every field of a
\* well-formed Message m: header, payload, onion_layers, hops_taken,
\* energy_cost, is_encrypted and signature.
C27_WireRoundTripIsIdentity == decoded.result = decoded.msg

\* C28: the mutations of one node's seen-set, relay queue and ledger are
\* serialized, so that under any interleaving of the radio callbacks and the
\* update thread a message id is accepted for relay at most once (one relay
\* credit per id) and the relay queue never holds more than max_relay_queue
\* messages.
RelayCredits(acct, id) ==
    {i \in DOMAIN acct.transactions :
        acct.transactions[i].reason = "relay" /\ acct.transactions[i].message_id = id}

C28_NodeStateIsSerialized ==
    /\ \A id \in {m.message_id : m \in ThreadFrames} :
            Cardinality(RelayCredits(energy_account[ThreadNode], id)) <= 1
    /\ Len(relay_queue[ThreadNode]) <= config[ThreadNode].max_relay_queue

\* the account's balance lies in [0.5 * target, 2 * target]
InRebalanceBand(account, target_balance) ==
    /\ 2 * account.balance >= target_balance
    /\ account.balance <= 2 * target_balance

\* C29: rebalance_energy leaves every account whose balance lies between half
\* the target and twice the target unchanged in every field (balance, totals,
\* counters, transaction log), so a further rebalance leaves it unchanged too
C29_RebalanceKeepsAccountsInBand ==
    [][last'.op = "rebalance_energy"
          => \E t \in TargetBalances :
                /\ DOMAIN accounts' = DOMAIN accounts
                /\ \A id \in DOMAIN accounts :
                      InRebalanceBand(accounts[id], t)
                          => /\ accounts'[id] = accounts[id]
                             /\ rebalance_account(accounts'[id], t) = accounts'[id]]_vars

\* a rebalance has run over an account inside the band that already had
\* transactions, next to an account outside the band that the rebalance moved
C29_Witness ==
    /\ last.op = "rebalance_energy"
    /\ \E t \in TargetBalances : \E id, other \in DOMAIN accounts :
          /\ InRebalanceBand(accounts[id], t)
          /\ accounts[id].transactions # <<>>
          /\ accounts[id].balance > t
          /\ accounts[other].transactions # <<>>
          /\ accounts[other].transactions[Len(accounts[other].transactions)].reason
                = "rebalance"

\* the six conditions under which node n takes msg for relay
AcceptsForRelay(n, msg) ==
    /\ msg.message_id \notin seen_message_ids[n]
    /\ msg.recipient_id # n
    /\ msg.ttl > 0
    /\ \A i \in 1..Len(msg.hops_taken) : msg.hops_taken[i] # n
    /\ config[n].enable_relay
    /\ Len(relay_queue[n]) < config[n].max_relay_queue

\* C30: receive_message accepts a message for relay if and only if its id is
\* unseen, it is not addressed to this node, ttl > 0, the node is not in
\* hops_taken, relay is enabled and the relay queue is under capacity; then,
\* and only then, the node is appended to hops_taken once, ttl decreases by 1,
\* the message is enqueued once, one relay credit is logged and
\* messages_relayed increases by 1.
C30_RelayAcceptedIffConditions ==
    [][last'.op = "receive_message"
          => LET n == last'.node
                 msg == last'.msg
                 log == energy_account[n].transactions
                 log2 == energy_account'[n].transactions
             IN  /\ (last'.ret = "relayed") <=> AcceptsForRelay(n, msg)
                 /\ \A o \in Nodes \ {n} :
                        /\ relay_queue'[o] = relay_queue[o]
                        /\ energy_account'[o] = energy_account[o]
                        /\ stats'[o] = stats[o]
                 /\ IF AcceptsForRelay(n, msg)
                    THEN /\ relay_queue'[n] = Append(relay_queue[n],
                                [msg EXCEPT !.hops_taken = Append(@, n), !.ttl = @ - 1])
                         /\ Len(log2) = Len(log) + 1
                         /\ SubSeq(log2, 1, Len(log)) = log
                         /\ log2[Len(log2)].reason = "relay"
                         /\ log2[Len(log2)].message_id = msg.message_id
                         /\ energy_account'[n].messages_relayed
                                = energy_account[n].messages_relayed + 1
                         /\ stats'[n].messages_relayed = stats[n].messages_relayed + 1
                    ELSE /\ relay_queue'[n] = relay_queue[n]
                         /\ energy_account'[n] = energy_account[n]
                         /\ stats'[n].messages_relayed = stats[n].messages_relayed]_vars

\* a node has taken a frame for relay that another relay had passed on before:
\* its queue ends with the frame, one hop longer and one ttl lower, and its
\* log ends with the relay credit for that frame
C30_Witness ==
    /\ last.op = "receive_message"
    /\ last.ret = "relayed"
    /\ last.msg.hops_taken # <<>>
    /\ LET n == last.node
           q == relay_queue[n]
           log == energy_account[n].transactions
       IN  /\ q # <<>>
           /\ q[Len(q)].message_id = last.msg.message_id
           /\ q[Len(q)].ttl = last.msg.ttl - 1
           /\ q[Len(q)].hops_taken = Append(last.msg.hops_taken, n)
           /\ log # <<>>
           /\ log[Len(log)].reason = "relay"
           /\ stats[n].messages_relayed >= 1

\* messages of the queue before the tick that the tick took out
RemovedByTick(n) ==
    {i \in DOMAIN relay_queue[n] :
        \A j \in DOMAIN relay_queue'[n] : relay_queue'[n][j] # relay_queue[n][i]}

\* C31: every message the periodic tick removes from the relay queue is either
\* emitted to a next hop over a link or counted in messages_dropped; a
\* non-expired message with no route stays in the queue, in its position
\* relative to the others, for the next tick.
C31_TickEmitsOrCountsRemoved ==
    [][last'.op = "_update_loop"
          => LET n == last'.node
                 emitted == {i \in RemovedByTick(n) : relay_queue[n][i] \in frames'}
                 Unroutable(m) ==
                     LET route == find_route(n, m.recipient_id, network_graph'[n])
                     IN  ~(route # None /\ Len(route) > 1)
             IN  /\ Cardinality(RemovedByTick(n) \ emitted)
                        = stats'[n].messages_dropped - stats[n].messages_dropped
                 /\ relay_queue'[n] = SelectSeq(relay_queue[n],
                        LAMBDA m : \E j \in DOMAIN relay_queue'[n] : relay_queue'[n][j] = m)
                 /\ \A i \in DOMAIN relay_queue[n] :
                        (~is_expired(relay_queue[n][i]) /\ Unroutable(relay_queue[n][i]))
                            => i \notin RemovedByTick(n)]_vars

\* C32: a receive of a message whose id is already in the seen-set only
\* increments messages_dropped: the relay queue, outgoing queue, received list,
\* energy account, seen-set and every frame (hops_taken and ttl of the message
\* included) are unchanged, and no ACK is produced.
C32_SeenMessageOnlyCountsDrop ==
    [][(/\ last'.op = "receive_message"
        /\ last'.msg.message_id \in seen_message_ids[last'.node])
          => /\ last'.ret = "seen"
             /\ stats' = [stats EXCEPT ![last'.node].messages_dropped = @ + 1]
             /\ UNCHANGED <<relay_queue, outgoing_queue, received_messages,
                            energy_account, seen_message_ids, frames, nextId,
                            config, network_graph>>]_vars

\* the node a message is addressed to, which has delivered and acknowledged
\* it once, gets the same frame again and drops it
C32_Witness ==
    /\ last.op = "receive_message"
    /\ last.ret = "seen"
    /\ last.msg.recipient_id = last.node
    /\ stats[last.node].messages_dropped = 1
    /\ Len(received_messages[last.node]) = 1
    /\ Len(outgoing_queue[last.node]) = 1
    /\ outgoing_queue[last.node][1].ack_for = last.msg.message_id

\* C33: the neighbours a node observed are part of the view it routes with:
\* after update_neighbors(N), a send to any n in N that the node can pay for
\* finds a route and is emitted, and the relay tick forwards every queued
\* message for any n in N, whatever view update_network_graph installed.
C33_ObservedNeighboursAreRouted ==
    [][neighbors' = neighbors
          => /\ (/\ last'.op = "send_message"
                 /\ last'.node = RouterNode
                 /\ last'.msg.recipient_id \in neighbors
                 /\ last'.ret # "insufficient_energy")
                    => (/\ last'.ret = "ok"
                        /\ \E m \in frames' :
                              /\ m.message_id = last'.msg.message_id
                              /\ m.hops_taken = <<RouterNode>>)
             /\ (/\ last'.op = "process_relay_queue"
                 /\ last'.node = RouterNode)
                    => \A i \in DOMAIN relay_queue[RouterNode] :
                          relay_queue[RouterNode][i].recipient_id \in neighbors
                             => /\ relay_queue[RouterNode][i] \in frames'
                                /\ \A j \in DOMAIN relay_queue'[RouterNode] :
                                      relay_queue'[RouterNode][j]
                                          # relay_queue[RouterNode][i]]_vars

\* what get_cached_route may return for d in the current state
CachedRouteIsActiveNeighbour ==
    \A d \in Ids :
        IF /\ d \in DOMAIN routing_table
           /\ routing_table[d].is_active
           /\ routing_table[d].next_hop \in neighbors
        THEN get_cached_route(d) = routing_table[d].next_hop
        ELSE get_cached_route(d) = ""

\* C34: get_cached_route(d) returns a next hop h only when the entry for d is
\* active and h is a current neighbour, and none otherwise; once
\* update_neighbors has dropped h, it returns none for d until cache_route
\* stores a new entry for d, even if h is a neighbour again.
C34_DroppedNextHopStaysInvalid ==
    [][/\ CachedRouteIsActiveNeighbour
       /\ CachedRouteIsActiveNeighbour'
       /\ \A d \in DOMAIN routing_table :
            LET h == routing_table[d].next_hop
                kept == /\ d \in DOMAIN routing_table'
                        /\ routing_table'[d].sequence_number
                              = routing_table[d].sequence_number
            IN  /\ (h \in neighbors /\ h \notin neighbors' /\ kept)
                      => (~routing_table'[d].is_active /\ get_cached_route(d)' = "")
                /\ (~routing_table[d].is_active /\ kept)
                      => (~routing_table'[d].is_active /\ get_cached_route(d)' = "")]_vars

\* the next hop of an entry was dropped by update_neighbors and is a neighbour
\* again: the entry is still inactive and no cached route is returned
C34_Witness ==
    \E d \in DOMAIN routing_table :
        /\ ~routing_table[d].is_active
        /\ routing_table[d].next_hop \in neighbors
        /\ get_cached_route(d) = ""
        /\ \E e \in DOMAIN routing_table : get_cached_route(e) # ""

\* C35: process_relay raises the balance of an account created plugged-in by
\* exactly message_cost * 0.1 * 1.5, and that of any other account by
\* message_cost * 0.1: the plugged-in multiplier is applied once per credit.
C35_RelayRewardAppliesMultiplierOnce ==
    [][(/\ last'.op = "process_relay"
        /\ KnownAccount(last'.node))
          => \E message_cost \in MessageCosts :
                100 * (accounts'[last'.node].balance - accounts[last'.node].balance)
                    = message_cost * (IF accounts[last'.node].is_plugged_in
                                      THEN 15 ELSE 10)]_vars

\* C36: a message id put in a node's seen-set is evicted after the seen-set
\* window, so the seen-set does not grow without bound: no id stays in a
\* seen-set forever.
C36_SeenIdsAreEvicted ==
    \A n \in Nodes : \A id \in RelayedIds : []<>(id \notin seen_message_ids[n])

\* C37: peel_layer run by a node other than the relay the leading layer was
\* built for, or under another node id, fails with an error and returns no
\* next hop; the routing information of a layer goes only to its intended
\* relay, whose MAC check has passed.
C37_OnlyIntendedRelayPeels ==
    peel_try # NoTry =>
        LET intended == onion_route[peel_try.after + 2]
            own == _derive_layer_keys(perform_dh(IdentityKeyOf(peel_try.node),
                                                 peel_try.sender_public_key),
                                      peel_try.my_node_id)
        IN  /\ (peel_try.node # intended \/ peel_try.my_node_id # intended)
                    => peel_try.next_hop = "ValueError"
            /\ peel_try.next_hop # "ValueError"
                    => /\ peel_try.node = intended
                       /\ peel_try.next_hop = onion_route[peel_try.after + 3]
                       /\ \E iv \in IVs :
                            OnionLayers(onion_route, iv)[peel_try.after + 1].mac
                              = HmacSha256(own.mac_key, iv,
                                    OnionLayers(onion_route, iv)[peel_try.after + 1]
                                        .encrypted_data)

\* the second relay's layer is leading: the first relay, which holds the
\* sender's public key, tries it under the second relay's id and fails
C37_Witness ==
    /\ Len(onion_route) = 4
    /\ onion_route[2] # onion_route[3]
    /\ peel_try.after = 1
    /\ peel_try.node = onion_route[2]
    /\ peel_try.my_node_id = onion_route[3]
    /\ peel_try.sender_public_key = EphemeralKeyOf(onion_route[1])
    /\ peel_try.next_hop = "ValueError"

\* C38: a MeshPhoneApp.send_message that fails with insufficient energy or no
\* route has not touched the ratchet session: the sending chain key and
\* message_number_send are what they were before the call.
C38_FailedSendKeepsSession ==
    [][(/\ last'.op = "app_send_message"
        /\ last'.ret \in {"insufficient_energy", "no_route"})
          => LET p == AppSession(last'.node)
             IN  /\ ratchet_state'[p].message_number_send
                        = ratchet_state[p].message_number_send
                 /\ ratchet_state[p] # NoRatchetState
                        => ratchet_state'[p].chain_key_send
                              = ratchet_state[p].chain_key_send]_vars

\* the number of transactions of the account with the given reason
LoggedWithReason(acct, reason) ==
    Cardinality({i \in DOMAIN acct.transactions : acct.transactions[i].reason = reason})

\* C39: in every reachable state of a MeshNode, stats.messages_sent equals
\* energy_account.messages_sent and stats.messages_relayed equals
\* energy_account.messages_relayed, and each equals the number of 'send'
\* (resp. 'relay') transactions in the account's log.
C39_CountersAgreeWithLog ==
    \A n \in Nodes :
        /\ stats[n].messages_sent = energy_account[n].messages_sent
        /\ stats[n].messages_sent = LoggedWithReason(energy_account[n], "send")
        /\ stats[n].messages_relayed = energy_account[n].messages_relayed
        /\ stats[n].messages_relayed = LoggedWithReason(energy_account[n], "relay")

\* one node has sent a message and two others have relayed it
C39_Witness ==
    /\ \E n \in Nodes :
          /\ stats[n].messages_sent = 1
          /\ LoggedWithReason(energy_account[n], "send") = 1
    /\ \E n, o \in Nodes :
          /\ n # o
          /\ stats[n].messages_relayed = 1
          /\ stats[o].messages_relayed = 1
          /\ LoggedWithReason(energy_account[o], "relay") = 1

\* C40: an account's balance is never negative, for the accounts of the
\* market and for the accounts of the nodes; a send or a spam penalty that
\* costs more than the balance of the account is refused and leaves every
\* account as it was
RefusedDebit ==
    /\ last'.op \in {"process_message_send", "apply_spam_penalty"}
    /\ KnownAccount(last'.node)
    /\ accounts[last'.node].balance <
            (IF last'.op = "apply_spam_penalty" THEN spam_penalty
             ELSE calculate_send_cost(1, 1, 3))
C40_BalanceNeverNegative ==
    /\ [](/\ \A id \in DOMAIN accounts : accounts[id].balance >= 0
          /\ \A n \in Nodes : energy_account[n].balance >= 0)
    /\ [][RefusedDebit => accounts' = accounts /\ last'.ret = "False"]_vars
C40_Witness ==
    /\ last.op = "apply_spam_penalty"
    /\ last.ret = "False"
    /\ KnownAccount(last.node)
    /\ accounts[last.node].balance < spam_penalty
    /\ \E i \in DOMAIN accounts[last.node].transactions :
            accounts[last.node].transactions[i].reason = "penalty"

\* C6: send_message called when the balance is below the message cost returns
\* failure and leaves the balance, total_spent, transaction log, messages_sent
\* counters and outgoing queue unchanged; no frame is emitted.
C6_InsufficientEnergyNoEffect ==
    [][(/\ last'.op = "send_message"
        /\ energy_account[last'.node].balance < calculate_energy_cost(last'.msg))
       => (/\ last'.ret = "insufficient_energy"
           /\ UNCHANGED <<energy_account, stats, outgoing_queue, frames>>)]_vars

C6_Witness ==
    /\ last.op = "send_message"
    /\ last.ret = "insufficient_energy"
    /\ energy_account[last.node].balance < calculate_energy_cost(last.msg)
    /\ find_route(last.node, last.msg.recipient_id, network_graph[last.node]) # None

\* C7: send_message to a recipient for which no route exists returns failure
\* with balance, total_spent and messages_sent as before the call and with
\* nothing added to the outgoing queue.
C7_NoRouteNoEffect ==
    [][(/\ last'.op = "send_message"
        /\ last'.msg.recipient_id \notin ReachFrom(network_graph[last'.node],
                                                  {last'.node}))
       => (/\ last'.ret \in {"no_route", "insufficient_energy"}
           /\ UNCHANGED <<energy_account, stats, outgoing_queue, frames>>)]_vars

C7_Witness ==
    /\ last.op = "send_message"
    /\ last.ret = "no_route"
    /\ energy_account[last.node].balance >= calculate_energy_cost(last.msg)
    /\ last.msg.recipient_id \notin ReachFrom(network_graph[last.node], {last.node})

\* C8 as stated: for every message observed on a delivery path, ACKs
\* included, ttl + len(hops_taken) = 10.
C8_TtlPlusHopsIsTen ==
    \A m \in Observed : m.ttl + Len(m.hops_taken) = DefaultTTL

\* C8 amended: ttl + len(hops_taken) is the TTL the message was created
\* with: 10 for a text message, 5 for an ACK.
C8_TtlPlusHopsIsInitialTtl ==
    \A m \in Observed :
        m.ttl + Len(m.hops_taken) = IF m.message_type = "ack" THEN AckTTL
                                    ELSE DefaultTTL

\* an ACK that two relays have accepted
C8_Witness ==
    \E n \in Nodes : \E m \in SeqRange(relay_queue[n]) :
        m.message_type = "ack" /\ Len(m.hops_taken) = 2 /\ m.ttl = AckTTL - 2

\* C9: every message held by any node (outgoing queue, relay queue, received
\* list) satisfies ttl + len(hops_taken) <= 10.
C9_TtlPlusHopsAtMostTen ==
    \A n \in Nodes : \A m \in HeldBy(n) : m.ttl + Len(m.hops_taken) <= DefaultTTL

C9_Witness ==
    \E n \in Nodes : \E m \in SeqRange(received_messages[n]) :
        m.message_type = "text" /\ Len(m.hops_taken) = 2
            /\ m.ttl + Len(m.hops_taken) = DefaultTTL

\* C10: no identity appears more than once in a message's hops_taken.
C10_NoRepeatedHop ==
    \A m \in Observed :
        \A i, j \in 1..Len(m.hops_taken) : m.hops_taken[i] = m.hops_taken[j] => i = j

\* the original sender gets its own message back from a relay and drops it
C10_Witness ==
    /\ last.op = "receive_message"
    /\ last.ret = "not_relayable"
    /\ last.node = last.msg.sender_id
    /\ InHops(last.msg, last.node)
    /\ Len(last.msg.hops_taken) = 2

====
